---- MODULE Spec2Model ----
(***************************************************************************)
(* A model of google-gas-town: the budget-aware agent (src/agent) and the  *)
(* Mayor orchestrator with its task plan store (src/lib).                  *)
(*                                                                         *)
(* Money.  The code computes in floating-point USD.  Every price of the    *)
(* registry is a multiple of 0.025 USD per million tokens, so the model    *)
(* counts prices in units of 0.025 USD/1M tokens and money in units of     *)
(* 2.5e-8 USD: the cost of a call is then exactly tokens * price, and      *)
(* 1 USD is 40,000,000 units.  Divisions of the code (budget per step,     *)
(* utilization, scores) are compared by cross-multiplication, i.e. as      *)
(* exact rationals; floating-point rounding is not modelled.               *)
(*                                                                         *)
(* Text.  A line of the task plan is a sequence of one-character strings.  *)
(***************************************************************************)
EXTENDS Integers, Sequences, FiniteSets, TLC

VARIABLES
    \* BudgetTracker (src/agent/budget.py)
    total_budget, spent, records, est_steps,
    \* Agent (src/agent/core.py)
    task, providers, models, messages, completed, step, pc, sel, max_tokens,
    calls, errors,
    \* the last value returned by a pure tracker/router operation
    ret,
    \* Mayor and BrainManager (src/lib/mayor.py, src/lib/brain.py)
    task_file, active_jobs, max_concurrent, mpc, cycle, hist,
    \* ToolRegistry (src/agent/tools.py): the file of the working directory
    fs,
    \* JulesWrapper (src/lib/jules_wrapper.py): a watch_job call, the tracked
    \* state of the job, and the state the job has at the service
    wpc, consecutive_errors, polled, wret, tracked, remote

trackerVars == <<total_budget, spent, records, est_steps>>
agentVars == <<task, providers, models, messages, completed, step, pc, sel, max_tokens,
               calls, errors>>
mayorVars == <<task_file, active_jobs, max_concurrent, mpc, cycle, hist>>
sandboxVars == <<fs>>
watchVars == <<wpc, consecutive_errors, polled, wret, tracked, remote>>
vars == <<trackerVars, agentVars, ret, mayorVars, sandboxVars, watchVars>>

\* ------------------------------------------------------------------ bounds

\* Iterations of Agent.run explored.
StepBound == 3
\* Cost records explored in the tracker specification.
MaxRecords == 3
\* Orchestrator cycles explored.
MaxCycles == 3
\* Largest max_concurrent_agents configured.
MaxConcurrent == 2
\* Job ids the job service hands out.
MaxJobId == 3
\* Longest content of the file of the working directory.
MaxFileLen == 3
\* Longest old_string passed to edit_file.
MaxOldLen == 2
\* Most lines of a task plan file.
MaxPlanLines == 3
\* Most calls of mark_task_status in a row.
MaxMarks == 2
\* Most polls of one watch_job call.
MaxPolls == 4
\* Most iterations explored of a whole run of the agent loop.
MaxLoopSteps == 201
\* Most edits the user makes to the task plan file by hand.
MaxEdits == 1
\* Most cycles of the Mayor's loop when a job is followed over its polls.
MaxPollCycles == 4
\* Longest task plan file, in characters, from which a task is dispatched
\* in the runs of the loop that have no last cycle.
MaxPlanChars == 40

\* ----------------------------------------------------------------- helpers

Max(a, b) == IF a >= b THEN a ELSE b
Min(a, b) == IF a <= b THEN a ELSE b

Range(s) == {s[i] : i \in DOMAIN s}

\* All sequences over a set of length at most n.
RECURSIVE SeqsUpTo(_, _)
SeqsUpTo(S, n) ==
    IF n = 0 THEN {<<>>}
    ELSE LET shorter == SeqsUpTo(S, n - 1)
         IN shorter \cup {Append(q, c) : q \in {r \in shorter : Len(r) = n - 1}, c \in S}

RECURSIVE SumSeq(_)
SumSeq(s) == IF s = <<>> THEN 0 ELSE Head(s) + SumSeq(Tail(s))

\* --------------------------------------------------- src/agent/router.py

\* ModelTier values.
BUDGET == 1
ECONOMY == 2
STANDARD == 3
PREMIUM == 4

StepTypes == {"plan", "execute", "verify", "simple"}

\* STEP_CAPABILITY_WEIGHT, in tenths.
STEP_CAPABILITY_WEIGHT ==
    [st \in StepTypes |->
        CASE st = "plan" -> 6
          [] st = "execute" -> 10
          [] st = "verify" -> 5
          [] st = "simple" -> 1]

ModelInfo(id, provider, tier, ip, op, cw) ==
    [id |-> id, provider |-> provider, tier |-> tier,
     input_cost_per_1m |-> ip, output_cost_per_1m |-> op, context_window |-> cw]

\* Prices in units of 0.025 USD per 1M tokens (15.0 -> 600, 0.075 -> 3);
\* context windows in thousands of tokens.
MODEL_REGISTRY == <<
    ModelInfo("claude-opus-4-20250514",    "anthropic", PREMIUM,  600, 3000, 200),
    ModelInfo("claude-sonnet-4-20250514",  "anthropic", STANDARD, 120,  600, 200),
    ModelInfo("claude-haiku-3-5-20241022", "anthropic", ECONOMY,   32,  160, 200),
    ModelInfo("o1",                        "openai",    PREMIUM,  600, 2400, 200),
    ModelInfo("gpt-4o",                    "openai",    STANDARD, 100,  400, 128),
    ModelInfo("gpt-4o-mini",               "openai",    ECONOMY,    6,   24, 128),
    ModelInfo("gemini-2.0-pro",            "google",    STANDARD,  50,  400, 1000),
    ModelInfo("gemini-2.0-flash",          "google",    ECONOMY,    4,   16, 1000),
    ModelInfo("gemini-1.5-flash",          "google",    BUDGET,     3,   12, 1000) >>

ProviderNames == {"anthropic", "openai", "google"}

\* ModelInfo.estimate_call_cost; the defaults are (2000, 1000).
estimate_call_cost(m, input_tokens, output_tokens) ==
    input_tokens * m.input_cost_per_1m + output_tokens * m.output_cost_per_1m

default_cost(m) == estimate_call_cost(m, 2000, 1000)

\* list.sort(key=...): a stable ascending sort.  InsertByCost puts m after
\* every element that is not dearer, so equal costs keep their order.
RECURSIVE InsertByCost(_, _)
InsertByCost(m, s) ==
    IF s = <<>> THEN <<m>>
    ELSE IF default_cost(Head(s)) <= default_cost(m)
         THEN <<Head(s)>> \o InsertByCost(m, Tail(s))
         ELSE <<m>> \o s

RECURSIVE SortByCost(_)
SortByCost(s) ==
    IF s = <<>> THEN <<>>
    ELSE InsertByCost(s[Len(s)], SortByCost(SubSeq(s, 1, Len(s) - 1)))

\* ModelRouter.__init__: the registry filtered to the available providers,
\* sorted by default cost.  (An empty result raises; Init never builds one.)
RouterModels(available) ==
    SortByCost(SelectSeq(MODEL_REGISTRY, LAMBDA m : m.provider \in available))

\* min(seq, key=...): the first element with the least key.
MinByCost(s) ==
    s[CHOOSE i \in DOMAIN s :
        /\ \A j \in DOMAIN s : default_cost(s[i]) <= default_cost(s[j])
        /\ \A j \in 1..(i - 1) : default_cost(s[j]) > default_cost(s[i])]

\* ModelRouter._cheapest / cheapest_model
cheapest_model == MinByCost(models)

\* --------------------------------------------------- src/agent/budget.py

remaining == Max(total_budget - spent, 0)

\* utilization > 0.95, with utilization = 1.0 when total_budget = 0.
UtilizationAbove95 ==
    IF total_budget = 0 THEN TRUE ELSE spent * 20 > total_budget * 19

estimated_remaining_steps == Max(est_steps, 1)

\* A setter that stores the value as it comes.
set_steps_unclamped(value) == value

\* The estimated_remaining_steps setter: the value stored.
set_estimated_remaining_steps(value) == Max(value, 1)

\* floor of budget_per_step = remaining / estimated_remaining_steps, and
\* whether the division is exact.
BpsFloor == remaining \div estimated_remaining_steps
BpsExact == remaining % estimated_remaining_steps = 0

\* x <= budget_per_step, for an integer amount x.
FitsPerStep(x) == x <= BpsFloor

\* budget_per_step - x <= 0
PerStepMinusNotPositive(x) == BpsFloor < x \/ (BpsFloor = x /\ BpsExact)

\* A budget check that only asks for some budget to be left.
can_afford_any(estimated_cost) == remaining > 0

\* A budget check that lets every call through.
can_afford_always(estimated_cost) == TRUE

can_afford(estimated_cost) == remaining >= estimated_cost

\* A cost record that does not keep the step.
CostRecordWithoutStep(model, input_tokens, output_tokens, cost, s) ==
    [model |-> model, input_tokens |-> input_tokens,
     output_tokens |-> output_tokens, cost |-> cost, step |-> 0]

\* CostRecord(model_id, input_tokens, output_tokens, cost, step)
CostRecord(model, input_tokens, output_tokens, cost, s) ==
    [model |-> model, input_tokens |-> input_tokens,
     output_tokens |-> output_tokens, cost |-> cost, step |-> s]

\* A record that overwrites spent with the cost of the call (= for +=).
record_overwrite(model_id, input_tokens, output_tokens, ip, op, s) ==
    LET cost == input_tokens * ip + output_tokens * op
        records2 == Append(records, CostRecord(model_id, input_tokens, output_tokens, cost, s))
    IN [spent |-> cost, records |-> records2, est_steps |-> est_steps, cost |-> cost]

\* A record that adjusts the step estimate only from the third record on.
record_from_third(model_id, input_tokens, output_tokens, ip, op, s) ==
    LET cost == input_tokens * ip + output_tokens * op
        spent2 == spent + cost
        records2 == Append(records, CostRecord(model_id, input_tokens, output_tokens, cost, s))
        remaining2 == Max(total_budget - spent2, 0)
        est2 == IF Len(records) >= 2 /\ spent2 > 0
                THEN Max((remaining2 * Len(records2)) \div spent2, 1)
                ELSE est_steps
    IN [spent |-> spent2, records |-> records2, est_steps |-> est2, cost |-> cost]

\* BudgetTracker.record: the tracker after the call, as a record of its fields.
record(model_id, input_tokens, output_tokens, ip, op, s) ==
    LET cost == input_tokens * ip + output_tokens * op
        spent2 == spent + cost
        records2 == Append(records, CostRecord(model_id, input_tokens, output_tokens, cost, s))
        remaining2 == Max(total_budget - spent2, 0)
        \* avg_cost_per_step = spent / len(records) > 0  iff  spent > 0;
        \* int(remaining / avg) = floor(remaining * len(records) / spent)
        est2 == IF Len(records2) >= 2 /\ spent2 > 0
                THEN Max((remaining2 * Len(records2)) \div spent2, 1)
                ELSE est_steps
    IN [spent |-> spent2, records |-> records2, est_steps |-> est2, cost |-> cost]

\* A returned value, or the exception that left the function.
Returned(v) == [raised |-> "", value |-> v]
Raised(e) == [raised |-> e, value |-> 0]

\* BudgetTracker.max_output_tokens
max_output_tokens(ip, op, estimated_input_tokens) ==
    LET input_cost == estimated_input_tokens * ip
    IN IF PerStepMinusNotPositive(input_cost) THEN Returned(256)
       ELSE IF op = 0 THEN Raised("ZeroDivisionError")
       ELSE Returned(Max(256, Min((BpsFloor - input_cost) \div op, 16384)))

\* --------------------------------------- src/agent/router.py: select

\* A score that leaves the tier out and keeps the savings only.
ScoreSavingsOnly(m, cost, step_type) ==
    LET w == STEP_CAPABILITY_WEIGHT[step_type]
    IN IF remaining > 0
       THEN 4 * (10 - w) * (remaining - cost * estimated_remaining_steps)
       ELSE 0

\* 40 * remaining * score of the code, for a candidate m (cost <= budget per
\* step): capability_weight * tier/4 + (1 - capability_weight) * savings,
\* savings = 1 - cost / per_step_budget, or 0 when per_step_budget is 0.
Score(m, cost, step_type) ==
    LET w == STEP_CAPABILITY_WEIGHT[step_type]
    IN IF remaining > 0
       THEN w * m.tier * remaining
            + 4 * (10 - w) * (remaining - cost * estimated_remaining_steps)
       ELSE w * m.tier

\* scored.sort(key=score, reverse=True)[0]: the first candidate, in the
\* order of self.models, whose score no other candidate exceeds.
FirstBest(cands, step_type, ein, eout) ==
    LET sc(m) == Score(m, estimate_call_cost(m, ein, eout), step_type)
    IN cands[CHOOSE i \in DOMAIN cands :
                /\ \A j \in DOMAIN cands : sc(cands[i]) >= sc(cands[j])
                /\ \A j \in 1..(i - 1) : sc(cands[j]) < sc(cands[i])]

\* A select without the hard budget guard of line 101.
select_unguarded(step_type, estimated_input_tokens, estimated_output_tokens) ==
    LET fits(m) == FitsPerStep(estimate_call_cost(
                       m, estimated_input_tokens, estimated_output_tokens))
        candidates == SelectSeq(models, fits)
    IN IF candidates = <<>> THEN cheapest_model
       ELSE FirstBest(candidates, step_type,
                      estimated_input_tokens, estimated_output_tokens)

\* A select that scores every model, whether it fits the budget per step
\* or not.
select_unfiltered(step_type, estimated_input_tokens, estimated_output_tokens) ==
    IF UtilizationAbove95 THEN cheapest_model
    ELSE FirstBest(models, step_type,
                   estimated_input_tokens, estimated_output_tokens)

\* ModelRouter.select
select(step_type, estimated_input_tokens, estimated_output_tokens) ==
    IF UtilizationAbove95 THEN cheapest_model
    ELSE LET fits(m) == FitsPerStep(estimate_call_cost(
                            m, estimated_input_tokens, estimated_output_tokens))
             candidates == SelectSeq(models, fits)
         IN IF candidates = <<>> THEN cheapest_model
            ELSE FirstBest(candidates, step_type,
                           estimated_input_tokens, estimated_output_tokens)

\* ----------------------------------------------------- src/agent/core.py

MAX_STEPS == 200

\* An unset local (model_info before the first selection).
NoModel == ModelInfo("", "", 0, 0, 0, 0)

\* Messages carry the length of their content in characters.
UserMsg(len) ==
    [role |-> "user", content |-> len, tool_calls |-> <<>>, tool_call_id |-> "", name |-> ""]
AssistantMsg(len, tcs) ==
    [role |-> "assistant", content |-> len, tool_calls |-> tcs, tool_call_id |-> "", name |-> ""]
ToolResultMsg(tc, len) ==
    [role |-> "tool_result", content |-> len, tool_calls |-> <<>>,
     tool_call_id |-> tc.id, name |-> tc.name]

ToolCall(id, name) == [id |-> id, name |-> name]

\* Agent._estimate_steps
InitialSteps(words) == IF words < 30 THEN 5 ELSE IF words < 100 THEN 10 ELSE 20

\* Agent._step_type_for
step_type_for(s) == IF s = 1 THEN "plan" ELSE "execute"

\* Agent._estimate_context_tokens
\* sum(len(str(m.get("content", ""))) for m in self.messages); the sum is
\* taken by halves so that a long history does not nest deeply.
RECURSIVE SumChars(_, _, _)
SumChars(ms, lo, hi) ==
    IF lo > hi THEN 0
    ELSE IF lo = hi THEN ms[lo].content
    ELSE LET mid == (lo + hi) \div 2
         IN SumChars(ms, lo, mid) + SumChars(ms, mid + 1, hi)

TotalChars(ms) == SumChars(ms, 1, Len(ms))

estimate_context_tokens == TotalChars(messages) \div 4

\* The cost floor of the budget check: cheapest.estimate_call_cost(500, 100).
min_cost == estimate_call_cost(cheapest_model, 500, 100)

\* What a provider adapter may return: (content length, tool calls, stop reason).
Completion(len, tcs, stop) == [content |-> len, tool_calls |-> tcs, stop_reason |-> stop]

Responses == {
    Completion(802, <<>>, "end_turn"),
    Completion(802, <<>>, "max_tokens"),
    Completion(0, <<ToolCall("c1", "read_file")>>, "tool_use"),
    Completion(120, <<ToolCall("c1", "read_file"), ToolCall("c2", "run_command")>>, "tool_use"),
    Completion(120, <<ToolCall("c1", "edit_file"), ToolCall("c2", "task_complete"),
                      ToolCall("c3", "run_command")>>, "tool_use") }

\* The provider's usage metadata: (input_tokens, output_tokens).
Usages == { <<0, 0>>, <<3000, 1000>> }

\* ToolRegistry.execute returns a string; its length here depends on the tool.
ToolOutputLen(name) == IF name = "read_file" THEN 4000 ELSE 37

\* A tool-call loop that puts each tool result in front of the earlier ones.
RECURSIVE ToolResultsNewestFirst(_)
ToolResultsNewestFirst(tcs) ==
    IF tcs = <<>> THEN <<>>
    ELSE IF Head(tcs).name = "task_complete" THEN <<>>
    ELSE ToolResultsNewestFirst(Tail(tcs))
         \o <<ToolResultMsg(Head(tcs), ToolOutputLen(Head(tcs).name))>>

\* The tool-call loop of Agent.run (lines 187-204): the tool-result messages
\* appended, in order, up to the first task_complete.
RECURSIVE ToolResults(_)
ToolResults(tcs) ==
    IF tcs = <<>> THEN <<>>
    ELSE IF Head(tcs).name = "task_complete" THEN <<>>
    ELSE <<ToolResultMsg(Head(tcs), ToolOutputLen(Head(tcs).name))>> \o ToolResults(Tail(tcs))

\* A completion test that looks at the last tool call of the turn only.
LastIsTaskComplete(tcs) == tcs # <<>> /\ tcs[Len(tcs)].name = "task_complete"

HasTaskComplete(tcs) == \E i \in DOMAIN tcs : tcs[i].name = "task_complete"

\* A completion test for a turn without tool calls that does not look at
\* the step.
ImplicitCompletionAtAnyStep(result, s) ==
    result.tool_calls = <<>> /\ result.stop_reason = "end_turn"

\* Agent.run, lines 205-209: a turn without tool calls whose stop reason is
\* end_turn completes the session after the first step.
ImplicitCompletion(result, s) ==
    result.tool_calls = <<>> /\ result.stop_reason = "end_turn" /\ s > 1

\* A fallback that goes on to the remaining providers after a success.
FallbackTriedAll(others, fails) == others

\* Agent._try_fallback: the providers tried, in dict order, up to and
\* including the first that does not raise.
RECURSIVE FallbackTried(_, _)
FallbackTried(others, fails) ==
    IF others = <<>> THEN <<>>
    ELSE IF Head(others) \notin fails THEN <<Head(others)>>
    ELSE <<Head(others)>> \o FallbackTried(Tail(others), fails)

\* One call of Provider.complete: the adapter called, the model id and token
\* ceiling passed, and whether the call returned (ok) or raised.
AdapterCall(provider, model_id, mt, ok) ==
    [provider |-> provider, model |-> model_id, max_tokens |-> mt, ok |-> ok]

\* Agent.run, lines 109-115.
RunStart ==
    /\ pc = "init"
    /\ messages' = Append(messages, UserMsg(task.chars))
    /\ step' = 0
    /\ pc' = "loop"
    /\ UNCHANGED <<trackerVars, task, providers, models, completed, sel, max_tokens,
                   calls, errors, ret, mayorVars, sandboxVars, watchVars>>

\* A loop test without the step ceiling.
loop_test_no_ceiling == ~completed

\* The test of the while loop of Agent.run (line 116).
loop_test == ~completed /\ step < MAX_STEPS

\* Agent.run, lines 116-145: the loop test, the budget check, the model
\* selection and the output-token ceiling, up to the provider call; bound
\* caps the iterations explored.
BeginStepWithin(bound) ==
    /\ pc = "loop"
    /\ loop_test
    /\ step < bound
    /\ step' = step + 1
    /\ calls' = <<>>
    /\ errors' = 0
    /\ IF ~can_afford(min_cost)
       THEN /\ pc' = "budget_exhausted"
            /\ UNCHANGED <<sel, max_tokens>>
       ELSE LET context_tokens == estimate_context_tokens
                model_info == select(step_type_for(step'), context_tokens + 500, 1000)
            IN /\ sel' = model_info
               /\ max_tokens' = max_output_tokens(model_info.input_cost_per_1m,
                                                  model_info.output_cost_per_1m,
                                                  context_tokens + 500).value
               /\ pc' = "call"
    /\ UNCHANGED <<trackerVars, task, providers, models, messages, completed,
                   ret, mayorVars, sandboxVars, watchVars>>

BeginStep ==
    /\ pc = "loop"
    /\ BeginStepWithin(StepBound)

\* Agent.run, lines 147-215: the provider call with its fallback, the cost
\* record, the assistant message, the tool calls and the step estimate.
\* fails: the providers whose adapter raises when called in this step.
\* ret keeps the stop reason of the result, which the history does not.
FinishStep(fails, result, usage) ==
    LET primary == sel.provider
        others == SelectSeq(providers, LAMBDA n : n # primary)
        tried == IF primary \in fails THEN FallbackTried(others, fails) ELSE <<>>
        made == <<AdapterCall(primary, sel.id, max_tokens, primary \notin fails)>>
                \o [i \in DOMAIN tried |->
                        AdapterCall(tried[i], cheapest_model.id, 1024, tried[i] \notin fails)]
        ok == primary \notin fails \/ (tried # <<>> /\ tried[Len(tried)] \notin fails)
        rec == record(sel.id, usage[1], usage[2],
                      sel.input_cost_per_1m, sel.output_cost_per_1m, step)
        done == HasTaskComplete(result.tool_calls) \/ ImplicitCompletion(result, step)
    IN /\ calls' = made
       /\ IF ~ok
          THEN \* "Provider error", then "All providers failed."; break
               /\ errors' = 2
               /\ pc' = "providers_failed"
               /\ UNCHANGED <<trackerVars, messages, completed, ret>>
          ELSE /\ errors' = IF primary \in fails THEN 1 ELSE 0
               /\ spent' = rec.spent
               /\ records' = rec.records
               /\ messages' = messages \o <<AssistantMsg(result.content, result.tool_calls)>>
                                       \o ToolResults(result.tool_calls)
               /\ completed' = done
               /\ est_steps' = IF done THEN rec.est_steps
                               ELSE set_estimated_remaining_steps(
                                        Max(Max(rec.est_steps, 1) - 1, 1))
               /\ ret' = [op |-> "complete", stop_reason |-> result.stop_reason]
               /\ pc' = "loop"
               /\ UNCHANGED total_budget
       /\ UNCHANGED <<task, providers, models, step, sel, max_tokens, mayorVars, sandboxVars, watchVars>>

CompleteStep ==
    /\ pc = "call"
    /\ \E fails \in SUBSET Range(providers), result \in Responses, usage \in Usages :
           FinishStep(fails, result, usage)

\* Agent.run, lines 116 and 217-218: the loop test fails.
LoopExit ==
    /\ pc = "loop"
    /\ ~loop_test
    /\ pc' = "finished"
    /\ UNCHANGED <<trackerVars, task, providers, models, messages, completed, step,
                   sel, max_tokens, calls, errors, ret, mayorVars, sandboxVars, watchVars>>

\* The provider dicts explored (detect_providers inserts in the order
\* anthropic, openai, google; a caller's dict may have any order).
ProviderConfigs == {
    <<"google">>,
    <<"anthropic">>,
    <<"anthropic", "openai">>,
    <<"openai", "google">>,
    <<"anthropic", "openai", "google">> }

\* Budgets explored, in units of 2.5e-8 USD: 0, 0.0005, 0.0025 and 1 USD.
Budgets == {0, 20000, 100000, 40000000}

\* Tasks explored: (word count, length in characters).
Tasks == { [words |-> 4, chars |-> 23], [words |-> 120, chars |-> 801] }

\* The session after Agent.__init__.
AgentInit ==
    /\ task \in Tasks
    /\ providers \in ProviderConfigs
    /\ models = RouterModels(Range(providers))
    /\ total_budget \in Budgets
    /\ spent = 0
    /\ records = <<>>
    /\ est_steps = set_estimated_remaining_steps(InitialSteps(task.words))
    /\ messages = <<>>
    /\ completed = FALSE
    /\ step = 0
    /\ pc = "init"
    /\ sel = NoModel
    /\ max_tokens = 0
    /\ calls = <<>>
    /\ errors = 0

AgentNext == RunStart \/ BeginStep \/ CompleteStep \/ LoopExit

\* ---- a whole run of the loop: one provider, one way for a turn to go on

\* What the adapter may return in a whole run: a turn that goes on with one
\* tool call, a turn without tool calls, and a turn that calls task_complete.
LoopResponses == {
    Completion(0, <<ToolCall("c1", "read_file")>>, "tool_use"),
    Completion(802, <<>>, "end_turn"),
    Completion(120, <<ToolCall("c1", "task_complete")>>, "tool_use") }

LoopUsages == { <<300, 100>> }

\* Budgets of the whole runs: 0, 0.0025 and 0.25 USD.
LoopBudgets == {0, 100000, 10000000}

AgentLoopInit ==
    /\ task = [words |-> 4, chars |-> 23]
    /\ providers = <<"google">>
    /\ models = RouterModels(Range(providers))
    /\ total_budget \in LoopBudgets
    /\ spent = 0
    /\ records = <<>>
    /\ est_steps = set_estimated_remaining_steps(InitialSteps(task.words))
    /\ messages = <<>>
    /\ completed = FALSE
    /\ step = 0
    /\ pc = "init"
    /\ sel = NoModel
    /\ max_tokens = 0
    /\ calls = <<>>
    /\ errors = 0

LoopBeginStep ==
    /\ pc = "loop"
    /\ BeginStepWithin(MaxLoopSteps)

LoopCompleteStep ==
    /\ pc = "call"
    /\ \E fails \in SUBSET Range(providers), result \in LoopResponses, usage \in LoopUsages :
           FinishStep(fails, result, usage)

AgentLoopNext == RunStart \/ LoopBeginStep \/ LoopCompleteStep \/ LoopExit

\* No agent session: the variables of the agent at rest.
AgentIdle ==
    /\ task = [words |-> 0, chars |-> 0]
    /\ messages = <<>>
    /\ completed = FALSE
    /\ step = 0
    /\ pc = "idle"
    /\ sel = NoModel
    /\ max_tokens = 0
    /\ calls = <<>>
    /\ errors = 0

NoRouter == providers = <<>> /\ models = <<>>

NoTracker == total_budget = 0 /\ spent = 0 /\ records = <<>> /\ est_steps = 0

NoRet == [op |-> "none"]

\* No submit made by the last dispatch step.
NoDispatch == [text |-> <<>>, submit |-> "none"]
\* No job has a failed poll behind it.
NoFails == [id \in 1..MaxJobId |-> 0]

MayorIdle ==
    /\ task_file = <<>>
    /\ active_jobs = <<>>
    /\ max_concurrent = 0
    /\ mpc = "idle"
    /\ cycle = 0
    /\ hist = [plan |-> <<>>, completed |-> 0, strayed |-> FALSE,
               before |-> <<>>, polls |-> <<>>, dispatch |-> NoDispatch]

\* No file in the working directory.
NoFile == [exists |-> FALSE, content |-> <<>>]

SandboxIdle == fs = NoFile

\* No status returned.
NoStatus == [state |-> "", synthetic |-> FALSE]

WatchIdle ==
    /\ wpc = "idle"
    /\ consecutive_errors = 0
    /\ polled = <<>>
    /\ wret = NoStatus
    /\ tracked = ""
    /\ remote = ""

\* ----------------------------------------------------- src/lib/brain.py

\* Whitespace that can occur inside a line (\s of the regex, str.strip).
IsSpace(c) == c \in {" ", "\t"}

\* str.splitlines on the characters from position i on; cur is the line
\* being read.  Lines end at \n, \r or \r\n; a final line break adds no
\* empty line.
RECURSIVE SplitFrom(_, _, _)
SplitFrom(c, i, cur) ==
    IF i > Len(c) THEN (IF cur = <<>> THEN <<>> ELSE <<cur>>)
    ELSE IF c[i] = "\n" THEN <<cur>> \o SplitFrom(c, i + 1, <<>>)
    ELSE IF c[i] = "\r"
         THEN <<cur>> \o SplitFrom(c, IF i < Len(c) /\ c[i + 1] = "\n" THEN i + 2 ELSE i + 1, <<>>)
    ELSE SplitFrom(c, i + 1, Append(cur, c[i]))

splitlines(content) == SplitFrom(content, 1, <<>>)

\* "\n".join(lines) + "\n"
RECURSIVE JoinLines(_)
JoinLines(lines) ==
    IF lines = <<>> THEN <<>>
    ELSE IF Len(lines) = 1 THEN lines[1]
    ELSE lines[1] \o <<"\n">> \o JoinLines(Tail(lines))

WriteLines(lines) == JoinLines(lines) \o <<"\n">>

\* The first position at or after i of s that holds no whitespace
\* (Len(s) + 1 when there is none).
RECURSIVE SkipSpace(_, _)
SkipSpace(s, i) == IF i <= Len(s) /\ IsSpace(s[i]) THEN SkipSpace(s, i + 1) ELSE i

\* The last position at or before i of s that holds no whitespace (0 when
\* there is none).
RECURSIVE SkipSpaceBack(_, _)
SkipSpaceBack(s, i) == IF i >= 1 /\ IsSpace(s[i]) THEN SkipSpaceBack(s, i - 1) ELSE i

\* str.strip
strip(s) == SubSeq(s, SkipSpace(s, 1), SkipSpaceBack(s, Len(s)))

\* re.match(r"^\s*[-*]\s*\[([ x/])\]\s*(.+)$", line): whether the line
\* matches, group(1) and group(2).strip().  After the closing bracket at
\* least one character must follow; \s* gives back a whitespace character
\* to (.+) when nothing else follows, and strip removes it again.
TaskMatch(line) ==
    LET b == SkipSpace(line, 1)
        o == SkipSpace(line, b + 1)
        ok == /\ b <= Len(line) /\ line[b] \in {"-", "*"}
              /\ o + 2 <= Len(line)
              /\ line[o] = "["
              /\ line[o + 1] \in {" ", "x", "/"}
              /\ line[o + 2] = "]"
              /\ o + 3 <= Len(line)
    IN IF ok
       THEN [matched |-> TRUE, marker |-> line[o + 1],
             text |-> strip(SubSeq(line, o + 3, Len(line)))]
       ELSE [matched |-> FALSE, marker |-> "", text |-> <<>>]

\* The status read_task_plan gives a marker (marker.lower() == "x": done).
StatusOf(marker) ==
    IF marker \in {"x", "X"} THEN "done"
    ELSE IF marker = "/" THEN "running"
    ELSE "pending"

\* BrainManager.read_task_plan on a file content: the entries in file order.
read_task_plan(content) ==
    LET lines == splitlines(content)
        RECURSIVE Entries(_)
        Entries(i) ==
            IF i > Len(lines) THEN <<>>
            ELSE LET m == TaskMatch(lines[i])
                 IN IF m.matched
                    THEN <<[status |-> StatusOf(m.marker), text |-> m.text,
                            original_line |-> lines[i]]>> \o Entries(i + 1)
                    ELSE Entries(i + 1)
    IN Entries(1)

\* None, or a returned text.
None == [some |-> FALSE, text |-> <<>>]
Some(t) == [some |-> TRUE, text |-> t]

\* A get_next_pending_task that returns the last pending task.
get_last_pending_task(content) ==
    LET tasks == read_task_plan(content)
        pend == {i \in DOMAIN tasks : tasks[i].status = "pending"}
    IN IF pend = {} THEN None
       ELSE Some(tasks[CHOOSE i \in pend : \A j \in pend : i >= j].text)

\* BrainManager.get_next_pending_task
get_next_pending_task(content) ==
    LET tasks == read_task_plan(content)
        pend == {i \in DOMAIN tasks : tasks[i].status = "pending"}
    IN IF pend = {} THEN None
       ELSE Some(tasks[CHOOSE i \in pend : \A j \in pend : i <= j].text)

\* marker_map.get(status, "[ ]")
MarkerFor(status) ==
    IF status = "running" THEN <<"[", "/", "]">>
    ELSE IF status = "done" THEN <<"[", "x", "]">>
    ELSE <<"[", " ", "]">>

\* line[:line.find("-")]: the characters before the first "-"; find gives
\* -1 when the line has none, and line[:-1] is the line without its last
\* character.
IndentOf(line) ==
    LET hits == {i \in DOMAIN line : line[i] = "-"}
    IN IF hits = {} THEN SubSeq(line, 1, Len(line) - 1)
       ELSE SubSeq(line, 1, (CHOOSE i \in hits : \A j \in hits : i <= j) - 1)

\* One line of mark_task_status's loop, with a space put before the
\* indentation.
MarkLineIndenting(line, task_text, status) ==
    LET m == TaskMatch(line)
    IN IF m.matched /\ m.text = task_text
       THEN <<" ">> \o IndentOf(line) \o <<"-", " ">> \o MarkerFor(status) \o <<" ">> \o m.text
       ELSE line

\* One line of mark_task_status's loop (lines 108-119).
MarkLine(line, task_text, status) ==
    LET m == TaskMatch(line)
    IN IF m.matched /\ m.text = task_text
       THEN IndentOf(line) \o <<"-", " ">> \o MarkerFor(status) \o <<" ">> \o m.text
       ELSE line

\* BrainManager.mark_task_status: the content of the file afterwards.
mark_task_status(content, task_text, status) ==
    LET lines == splitlines(content)
    IN WriteLines([i \in DOMAIN lines |-> MarkLine(lines[i], task_text, status)])

\* ----------------------------------------------------- src/lib/mayor.py

\* _active_jobs, a dict job_id -> task_text, as the sequence of its items
\* in insertion order.
Keys(d) == [i \in DOMAIN d |-> d[i].id]
Values(d) == {d[i].text : i \in DOMAIN d}
Lookup(d, id) == d[CHOOSE i \in DOMAIN d : d[i].id = id].text

\* d[id] = text
DictSet(d, id, text) ==
    IF \E i \in DOMAIN d : d[i].id = id
    THEN [i \in DOMAIN d |-> IF d[i].id = id THEN [id |-> id, text |-> text] ELSE d[i]]
    ELSE Append(d, [id |-> id, text |-> text])

\* del d[id]
DictDel(d, id) == SelectSeq(d, LAMBDA e : e.id # id)

JobIds == 1..MaxJobId

\* What JulesWrapper.submit_task gives: a job id, or an exception.
SubmitOutcomes == {[ok |-> TRUE, id |-> i] : i \in JobIds} \cup {[ok |-> FALSE, id |-> 0]}

\* What polling a job gives: a state of the job service, or an exception.
PollOutcomes == {"PENDING", "RUNNING", "COMPLETED", "FAILED", "CANCELLED",
                 "ERROR", "raise"}

\* The body of the loop of Mayor._check_jobs with the terminal job kept in
\* the active map when it failed.
ReconcileJobKeepsFailed(st, job_id, out) ==
    LET task_text == Lookup(st.active, job_id)
    IN IF out = "COMPLETED"
       THEN [file |-> mark_task_status(st.file, task_text, "done"),
             active |-> DictDel(st.active, job_id)]
       ELSE IF out \in {"FAILED", "CANCELLED", "ERROR"}
       THEN [file |-> mark_task_status(st.file, task_text, "pending"),
             active |-> st.active]
       ELSE st

\* The body of the loop of Mayor._check_jobs with the completed job kept
\* in the active map.
ReconcileJobKeepsCompleted(st, job_id, out) ==
    LET task_text == Lookup(st.active, job_id)
    IN IF out = "COMPLETED"
       THEN [file |-> mark_task_status(st.file, task_text, "done"),
             active |-> st.active]
       ELSE IF out \in {"FAILED", "CANCELLED", "ERROR"}
       THEN [file |-> mark_task_status(st.file, task_text, "pending"),
             active |-> DictDel(st.active, job_id)]
       ELSE st

\* The body of the loop of Mayor._check_jobs (lines 130-144) for one job;
\* st holds the task plan file and the active map so far, out is what the
\* poll gives.
ReconcileJob(st, job_id, out) ==
    LET task_text == Lookup(st.active, job_id)
    IN IF out = "COMPLETED"
       THEN [file |-> mark_task_status(st.file, task_text, "done"),
             active |-> DictDel(st.active, job_id)]
       ELSE IF out \in {"FAILED", "CANCELLED", "ERROR"}
       THEN [file |-> mark_task_status(st.file, task_text, "pending"),
             active |-> DictDel(st.active, job_id)]
       ELSE st

\* The loop of Mayor._check_jobs over list(self._active_jobs.keys()), from
\* the k-th key on.
RECURSIVE CheckFrom(_, _, _, _)
CheckFrom(keys, outs, k, st) ==
    IF k > Len(keys) THEN st
    ELSE CheckFrom(keys, outs, k + 1, ReconcileJob(st, keys[k], outs[k]))

\* For every job id, the polls of the job that raised in a row up to now:
\* one more when this poll raised, none when the job was not polled or its
\* poll returned.
PollFailures(fails, active, outs) ==
    [id \in JobIds |->
       IF \E k \in DOMAIN active : active[k].id = id /\ outs[k] = "raise"
       THEN fails[id] + 1 ELSE 0]

\* The history after the polls of one _check_jobs, in the runs that keep
\* hist.fails.
CountFails(h, active, outs) ==
    IF "fails" \in DOMAIN h
    THEN [h EXCEPT !.fails = PollFailures(@, active, outs)]
    ELSE h

\* The history after a job id was handed out by submit_task: the job is
\* new and has no failed poll behind it.
ResetFails(h, id) ==
    IF "fails" \in DOMAIN h THEN [h EXCEPT !.fails[id] = 0] ELSE h

\* Mayor._check_jobs: every active job is polled once; outs[k] is what the
\* poll of the k-th job gives.  hist.before and hist.polls keep the task
\* plan the call found and the job, task and outcome of each poll.
CheckJobsPolling(outs) ==
    /\ LET st == CheckFrom(Keys(active_jobs), outs, 1,
                            [file |-> task_file, active |-> active_jobs])
        IN /\ task_file' = st.file
           /\ active_jobs' = st.active
           /\ hist' = [CountFails(hist, active_jobs, outs) EXCEPT
                 !.completed = @ + Cardinality({k \in DOMAIN outs : outs[k] = "COMPLETED"}),
                 !.strayed = @ \/ \E k \in DOMAIN outs : outs[k] \notin {"PENDING", "COMPLETED"},
                 !.dispatch = NoDispatch,
                 !.before = task_file,
                 !.polls = [k \in DOMAIN outs |->
                              [id |-> active_jobs[k].id, text |-> active_jobs[k].text,
                               out |-> outs[k]]]]
    /\ mpc' = "dispatch"
    /\ UNCHANGED <<max_concurrent, cycle, trackerVars, agentVars, ret, sandboxVars, watchVars>>

\* Mayor._check_jobs in one of the first bound cycles of the loop.
CheckJobsWithin(bound) ==
    /\ mpc = "check"
    /\ cycle < bound
    /\ \E outs \in [DOMAIN active_jobs -> PollOutcomes] : CheckJobsPolling(outs)

CheckJobs ==
    /\ mpc = "check"
    /\ CheckJobsWithin(MaxCycles)

\* Mayor._check_jobs in the runs that follow a job over its polls.
PolledCheckJobs ==
    /\ mpc = "check"
    /\ CheckJobsWithin(MaxPollCycles)

\* A capacity check that lets one job too many through.
AtCapacityOffByOne == Len(active_jobs) > max_concurrent

\* The capacity check of Mayor._dispatch_next_task.
AtCapacity == Len(active_jobs) >= max_concurrent

\* A dispatch that does not look at the tasks of the active jobs.
NeverActive(task_text) == FALSE

\* task_text in self._active_jobs.values() (mayor.py, line 97)
AlreadyActive(task_text) == task_text \in Values(active_jobs)

\* An except branch that leaves the task plan as the dispatch marked it.
KeepMarked(marked, task_text) == marked

\* The except branch of Mayor._dispatch_next_task (lines 119-121): the task
\* is marked pending again.
RevertToPending(marked, task_text) == mark_task_status(marked, task_text, "pending")

\* The history when a cycle ends: what the last _check_jobs saw is dropped.
EndOfCycle(h) == [h EXCEPT !.before = <<>>, !.polls = <<>>]

\* Mayor._dispatch_next_task.  hist.dispatch keeps the task submitted and
\* whether the submit returned.  submit is what JulesWrapper.submit_task
\* does, one of outcomes: it returns a job id or raises.
DispatchSubmitting(outcomes) ==
    /\ LET task_text == get_next_pending_task(task_file)
       IN IF AtCapacity
          THEN UNCHANGED <<task_file, active_jobs>> /\ hist' = EndOfCycle(hist)
          ELSE IF task_text.some /\ task_text.text # <<>>
                  /\ ~AlreadyActive(task_text.text)
          THEN LET marked == mark_task_status(task_file, task_text.text, "running")
               IN \E submit \in outcomes :
                    IF ~submit.ok
                    THEN /\ task_file' = RevertToPending(marked, task_text.text)
                         /\ active_jobs' = active_jobs
                         /\ hist' = [EndOfCycle(hist) EXCEPT
                                      !.strayed = TRUE,
                                      !.dispatch = [text |-> task_text.text, submit |-> "raise"]]
                    ELSE /\ task_file' = marked
                         /\ active_jobs' = DictSet(active_jobs, submit.id, task_text.text)
                         /\ hist' = [ResetFails(EndOfCycle(hist), submit.id) EXCEPT
                                      !.strayed =
                                        @ \/ \E i \in DOMAIN active_jobs : active_jobs[i].id = submit.id,
                                      !.dispatch = [text |-> task_text.text, submit |-> "ok"]]
          ELSE UNCHANGED <<task_file, active_jobs>> /\ hist' = EndOfCycle(hist)
    /\ mpc' = "check"
    /\ UNCHANGED <<max_concurrent, trackerVars, agentVars, ret, sandboxVars, watchVars>>

\* Mayor._dispatch_next_task, followed by the sleep that ends the cycle.
DispatchNextTask ==
    /\ mpc = "dispatch"
    /\ DispatchSubmitting(SubmitOutcomes)
    /\ cycle' = cycle + 1

MayorNext == CheckJobs \/ DispatchNextTask

\* Lines of task plans.
HeaderLine == <<"#", " ", "T">>
TaskLine(indent, bullet, marker, text) ==
    indent \o <<bullet, " ", "[", marker, "]", " ">> \o text

\* A plan of three pending tasks.
ThreePending ==
    WriteLines(<<HeaderLine,
                 TaskLine(<<>>, "-", " ", <<"A">>),
                 TaskLine(<<>>, "-", " ", <<"B">>),
                 TaskLine(<<>>, "-", " ", <<"C">>)>>)

\* Task plans on disk when the Mayor starts.
InitialPlans == {
    ThreePending,
    WriteLines(<<TaskLine(<<>>, "*", " ", <<"A">>),
                 TaskLine(<<" ", " ">>, "-", " ", <<"B">>)>>),
    WriteLines(<<TaskLine(<<>>, "-", "x", <<"A">>),
                 <<>>,
                 TaskLine(<<>>, "-", " ", <<"A">>)>>) }

\* Mayor.__init__ followed by the start of interactive_loop.
MayorInit ==
    /\ task_file \in InitialPlans
    /\ active_jobs = <<>>
    /\ max_concurrent \in 1..MaxConcurrent
    /\ mpc = "check"
    /\ cycle = 0
    /\ hist = [plan |-> task_file, completed |-> 0, strayed |-> FALSE,
               before |-> <<>>, polls |-> <<>>, dispatch |-> NoDispatch]

\* A plan of two pending tasks.
TwoPending ==
    WriteLines(<<HeaderLine,
                 TaskLine(<<>>, "-", " ", <<"A">>),
                 TaskLine(<<>>, "-", " ", <<"B">>)>>)

\* The Mayor started on a plan the user goes on editing.  hist.edits counts
\* the edits.
EditedMayorInit ==
    /\ task_file = TwoPending
    /\ active_jobs = <<>>
    /\ max_concurrent \in 1..MaxConcurrent
    /\ mpc = "check"
    /\ cycle = 0
    /\ hist = [plan |-> task_file, completed |-> 0, strayed |-> FALSE,
               before |-> <<>>, polls |-> <<>>, dispatch |-> NoDispatch,
               edits |-> 0]

\* Between two cycles the user changes the checkbox of one task in the
\* file.  TaskBrain keeps no copy of the plan: read_task_plan and
\* mark_task_status read the file again at every call, so the next cycle
\* works on what the user wrote.
UserEdit ==
    /\ mpc = "check"
    /\ cycle < MaxCycles
    /\ hist.edits < MaxEdits
    /\ \E i \in DOMAIN read_task_plan(task_file), status \in {"pending", "running", "done"} :
         /\ read_task_plan(task_file)[i].status # status
         /\ task_file' = mark_task_status(task_file, read_task_plan(task_file)[i].text, status)
    /\ hist' = [hist EXCEPT !.edits = @ + 1]
    /\ UNCHANGED <<active_jobs, max_concurrent, mpc, cycle,
                   trackerVars, agentVars, ret, sandboxVars, watchVars>>

EditedMayorNext == CheckJobs \/ DispatchNextTask \/ UserEdit

\* The Mayor followed for the cycles it takes to poll a job several times.
PolledMayorInit ==
    /\ task_file = TwoPending
    /\ active_jobs = <<>>
    /\ max_concurrent \in 1..MaxConcurrent
    /\ mpc = "check"
    /\ cycle = 0
    /\ hist = [plan |-> task_file, completed |-> 0, strayed |-> FALSE,
               before |-> <<>>, polls |-> <<>>, dispatch |-> NoDispatch,
               fails |-> NoFails]

PolledMayorNext == PolledCheckJobs \/ DispatchNextTask

\* ---- the loop without a last cycle, beside a job service that works

\* What a poll gives while the service works: the job is running, or it
\* is completed.
WorkingPolls == {"RUNNING", "COMPLETED"}

\* What submit_task gives while the service works: the id of a new job,
\* which no job of the active map has.
WorkingSubmits ==
    {[ok |-> TRUE, id |-> i] : i \in JobIds \ Range(Keys(active_jobs))}

\* Mayor._check_jobs in a loop whose cycles are not counted.
SteadyCheckJobs ==
    /\ mpc = "check"
    /\ \E outs \in [DOMAIN active_jobs -> WorkingPolls] : CheckJobsPolling(outs)

\* Mayor._dispatch_next_task in a loop whose cycles are not counted.
SteadyDispatchNextTask ==
    /\ mpc = "dispatch"
    /\ Len(task_file) <= MaxPlanChars
    /\ DispatchSubmitting(WorkingSubmits)
    /\ UNCHANGED cycle

SteadyMayorNext == SteadyCheckJobs \/ SteadyDispatchNextTask

\* The steps of the loop as its control sees them: _check_jobs returns and
\* _dispatch_next_task is called; _dispatch_next_task returns and, after
\* the sleep, _check_jobs is called again.
CheckReturns == mpc = "check" /\ mpc' = "dispatch"
DispatchReturns ==
    mpc = "dispatch" /\ Len(task_file) <= MaxPlanChars /\ mpc' = "check"

\* The _check_jobs in which the service reports the active job id
\* completed, so that the job leaves the active map.
ReportedCompleted(id) ==
    /\ mpc = "check"
    /\ \E k \in DOMAIN active_jobs : active_jobs[k].id = id
    /\ mpc' = "dispatch"
    /\ active_jobs' = DictDel(active_jobs, id)

\* ------------------------------------- the task plan store on its own

\* The lines task plans are made of: prose, tasks with either bullet, an
\* indented done task, and a task checked with a capital X.
PlanLines == {
    HeaderLine,
    TaskLine(<<>>, "-", " ", <<"A">>),
    TaskLine(<<>>, "-", " ", <<"B">>),
    TaskLine(<<>>, "*", " ", <<"A">>),
    TaskLine(<<" ", " ">>, "-", "x", <<"A">>),
    TaskLine(<<>>, "-", "X", <<"B">>) }

\* The task plan files explored: every sequence of these lines, each ended
\* by a newline; the empty file; and a file whose last line has no newline.
PlanFiles ==
    {WriteLines(ls) : ls \in SeqsUpTo(PlanLines, MaxPlanLines) \ {<<>>}}
    \cup {<<>>, JoinLines(<<HeaderLine, TaskLine(<<>>, "-", " ", <<"A">>)>>)}

\* The arguments of mark_task_status explored.
MarkTexts == {<<"A">>}
Statuses == {"running", "done", "pending"}

\* The task plan store after BrainManager.__init__ on an existing file.
BrainInit ==
    /\ task_file \in PlanFiles
    /\ hist = [plan |-> task_file, marks |-> <<>>, files |-> <<>>]
    /\ ret = NoRet

\* A call of BrainManager.mark_task_status.
DoMark ==
    /\ ret = NoRet
    /\ Len(hist.marks) < MaxMarks
    /\ \E t \in MarkTexts, status \in Statuses :
         /\ task_file' = mark_task_status(task_file, t, status)
         /\ hist' = [hist EXCEPT !.marks = Append(@, [text |-> t, status |-> status]),
                                 !.files = Append(@, task_file')]
    /\ UNCHANGED <<active_jobs, max_concurrent, mpc, cycle, ret,
                   trackerVars, agentVars, sandboxVars, watchVars>>

\* A call of BrainManager.read_task_plan.
DoReadTaskPlan ==
    /\ ret = NoRet
    /\ ret' = [op |-> "read_task_plan", result |-> read_task_plan(task_file)]
    /\ UNCHANGED <<mayorVars, trackerVars, agentVars, sandboxVars, watchVars>>

\* A call of BrainManager.get_next_pending_task.
DoNextPending ==
    /\ ret = NoRet
    /\ ret' = [op |-> "get_next_pending_task", result |-> get_next_pending_task(task_file)]
    /\ UNCHANGED <<mayorVars, trackerVars, agentVars, sandboxVars, watchVars>>

BrainNext == DoMark \/ DoReadTaskPlan \/ DoNextPending

\* ---- the rewrite of the task plan file, step by step, and a reader

\* The start of mark_task_status up to the open of Path.write_text (lines
\* 91-121 and 40-41): the file is read, the new content is computed, and
\* opening the file for writing truncates it.
MarkOpen ==
    /\ ret = NoRet
    /\ mpc = "idle"
    /\ cycle < MaxMarks
    /\ \E t \in MarkTexts, status \in Statuses :
         hist' = [before |-> task_file,
                  target |-> mark_task_status(task_file, t, status)]
    /\ task_file' = <<>>
    /\ mpc' = "writing"
    /\ cycle' = cycle + 1
    /\ UNCHANGED <<active_jobs, max_concurrent, ret,
                   trackerVars, agentVars, sandboxVars, watchVars>>

\* The buffer of the open file is flushed to disk part of the way: the file
\* holds a longer prefix of the new content.
MarkFlush ==
    /\ ret = NoRet
    /\ mpc = "writing"
    /\ \E k \in (Len(task_file) + 1)..(Len(hist.target) - 1) :
         task_file' = SubSeq(hist.target, 1, k)
    /\ UNCHANGED <<active_jobs, max_concurrent, mpc, cycle, hist, ret,
                   trackerVars, agentVars, sandboxVars, watchVars>>

\* The file is closed: the whole new content is on disk.
MarkClose ==
    /\ ret = NoRet
    /\ mpc = "writing"
    /\ task_file' = hist.target
    /\ mpc' = "idle"
    /\ UNCHANGED <<active_jobs, max_concurrent, cycle, hist, ret,
                   trackerVars, agentVars, sandboxVars, watchVars>>

\* Another process reads the whole file (a read_text as in line 51 of
\* read_task_plan); ret keeps what it got, with the content before and
\* after the rewrite that is under way or was last made.
ReadFile ==
    /\ ret = NoRet
    /\ ret' = [op |-> "read_file", content |-> task_file,
               old |-> hist.before, new |-> hist.target]
    /\ UNCHANGED <<mayorVars, trackerVars, agentVars, sandboxVars, watchVars>>

RewriteInit ==
    /\ task_file \in InitialPlans
    /\ hist = [before |-> task_file, target |-> task_file]
    /\ active_jobs = <<>> /\ max_concurrent = 0 /\ mpc = "idle" /\ cycle = 0
    /\ ret = NoRet

RewriteNext == MarkOpen \/ MarkFlush \/ MarkClose \/ ReadFile

\* --------------------------------------------------- src/agent/tools.py

\* A value of an argument mapping or a result: a string (as the sequence of
\* its characters; a fixed piece of a message is one element) or some other
\* JSON value.
Str(chars) == [type |-> "str", s |-> chars]
\* The number 42 as an argument value.
NonStr == [type |-> "other", s |-> <<>>]

\* The prefix of every error string.
ErrorPrefix == "Error: "
ErrorStr(rest) == Str(<<ErrorPrefix>> \o rest)

\* What a handler does: it returns a value or raises, and leaves the file.
Return(v, f) == [raises |-> FALSE, value |-> v, fs |-> f]
Raise(type, f) == [raises |-> TRUE, value |-> Str(<<type>>), fs |-> f]

\* open(resolved, "r").read(): text mode with universal newlines.
RECURSIVE ReadText(_)
ReadText(bytes) ==
    IF bytes = <<>> THEN <<>>
    ELSE IF Head(bytes) = "\r"
    THEN IF Len(bytes) >= 2 /\ bytes[2] = "\n"
         THEN <<"\n">> \o ReadText(SubSeq(bytes, 3, Len(bytes)))
         ELSE <<"\n">> \o ReadText(Tail(bytes))
    ELSE <<Head(bytes)>> \o ReadText(Tail(bytes))

\* old occurs in content at offset i (1-based).
OccursAt(content, old, i) ==
    /\ i >= 1 /\ i + Len(old) - 1 <= Len(content)
    /\ SubSeq(content, i, i + Len(old) - 1) = old

\* str.find from offset i: the first offset >= i at which old occurs, or 0.
FindFrom(content, old, i) ==
    LET hits == {j \in i..(Len(content) + 1) : OccursAt(content, old, j)}
    IN IF hits = {} THEN 0 ELSE CHOOSE j \in hits : \A k \in hits : j <= k

\* str.count: the number of non-overlapping occurrences, scanning from the
\* left; len + 1 for the empty string.
RECURSIVE CountFrom(_, _, _)
CountFrom(content, old, i) ==
    LET j == FindFrom(content, old, i)
    IN IF j = 0 THEN 0 ELSE 1 + CountFrom(content, old, j + Len(old))

count(content, old) ==
    IF old = <<>> THEN Len(content) + 1 ELSE CountFrom(content, old, 1)

\* content.replace(old, new, 1)
replace_first(content, old, new) ==
    LET j == FindFrom(content, old, 1)
    IN IF j = 0 THEN content
       ELSE SubSeq(content, 1, j - 1) \o new \o SubSeq(content, j + Len(old), Len(content))

\* An argument mapping: the items of a dict, or a value that is no mapping.
Args(items) == [mapping |-> TRUE, items |-> items]
NotAMapping == [mapping |-> FALSE, items |-> {}]
ArgKeys(arguments) == {p[1] : p \in arguments.items}
Has(arguments, k) == k \in ArgKeys(arguments)
Get(arguments, k) == (CHOOSE p \in arguments.items : p[1] = k)[2]

\* The path of the file of the working directory, a path at which there is
\* nothing, and the working directory itself.
FilePath == <<"f">>
MissingPath == <<"g">>
DirPath == <<".">>

\* os.path.isfile(resolved)
isfile(path, f) == path = FilePath /\ f.exists

\* ToolRegistry._tool_read_file (the truncation at 100000 characters is
\* beyond MaxFileLen).
tool_read_file(arguments, f, world) ==
    LET path == Get(arguments, "path")
    IN IF path.type # "str" THEN Raise("TypeError", f)
       ELSE IF ~isfile(path.s, f)
       THEN Return(ErrorStr(<<"File not found: ">> \o path.s), f)
       ELSE IF world = "oserror" THEN Raise("PermissionError", f)
       ELSE Return(Str(ReadText(f.content)), f)

\* ToolRegistry._tool_write_file: open(resolved, "w") truncates the file
\* before f.write is reached.
tool_write_file(arguments, f, world) ==
    LET path == Get(arguments, "path")
        content == Get(arguments, "content")
        opened == IF path.s = FilePath THEN [exists |-> TRUE, content |-> <<>>] ELSE f
    IN IF path.type # "str" THEN Raise("TypeError", f)
       ELSE IF world = "oserror" \/ path.s = DirPath THEN Raise("OSError", f)
       ELSE IF content.type # "str" THEN Raise("TypeError", opened)
       ELSE Return(Str(<<"Wrote ", ToString(Len(content.s)), " chars to ">> \o path.s),
                   IF path.s = FilePath
                   THEN [exists |-> TRUE, content |-> content.s] ELSE f)

\* ToolRegistry._tool_edit_file
tool_edit_file(arguments, f, world) ==
    LET path == Get(arguments, "path")
        old_string == Get(arguments, "old_string")
        new_string == Get(arguments, "new_string")
        content == ReadText(f.content)
        n == count(content, old_string.s)
    IN IF path.type # "str" THEN Raise("TypeError", f)
       ELSE IF ~isfile(path.s, f)
       THEN Return(ErrorStr(<<"File not found: ">> \o path.s), f)
       ELSE IF world = "oserror" THEN Raise("PermissionError", f)
       ELSE IF old_string.type # "str" THEN Raise("TypeError", f)
       ELSE IF n = 0 THEN Return(ErrorStr(<<"old_string not found in file">>), f)
       ELSE IF n > 1
       THEN Return(ErrorStr(<<"old_string found ", ToString(n),
                              " times, must be unique. Add more context.">>), f)
       ELSE IF new_string.type # "str" THEN Raise("TypeError", f)
       ELSE Return(Str(<<"Edited ">> \o path.s \o <<": replaced 1 occurrence">>),
                   [exists |-> TRUE,
                    content |-> replace_first(content, old_string.s, new_string.s)])

\* ToolRegistry._tool_list_files on a path without * or ?.
tool_list_files(arguments, f, world) ==
    LET path == Get(arguments, "path")
    IN IF path.type # "str" THEN Raise("TypeError", f)
       ELSE IF path.s # DirPath
       THEN Return(ErrorStr(<<"Not a directory or pattern: ">> \o path.s), f)
       ELSE IF world = "oserror" THEN Raise("PermissionError", f)
       ELSE Return(Str(IF f.exists THEN FilePath ELSE <<>>), f)

\* ToolRegistry._tool_search_files: grep's output comes from outside.
tool_search_files(arguments, f, world) ==
    LET bad == \E k \in {"pattern", "path", "include"} :
                   Has(arguments, k) /\ Get(arguments, k).type # "str"
    IN IF bad THEN Raise("TypeError", f)
       ELSE IF world = "oserror" THEN Raise("FileNotFoundError", f)
       ELSE IF world = "timeout" THEN Return(ErrorStr(<<"Search timed out">>), f)
       ELSE IF world = "empty" THEN Return(Str(<<"No matches found.">>), f)
       ELSE Return(Str(<<"f:1:a">>), f)

\* ToolRegistry._tool_run_command: the command's output comes from outside
\* (the commands explored leave the file alone).
tool_run_command(arguments, f, world) ==
    LET command == Get(arguments, "command")
        bad == \/ command.type # "str"
               \/ Has(arguments, "timeout") /\ Get(arguments, "timeout").type = "str"
    IN IF bad THEN Raise("TypeError", f)
       ELSE IF world = "oserror" THEN Raise("OSError", f)
       ELSE IF world = "timeout"
       THEN Return(ErrorStr(<<"Command timed out after ", "30", "s">>), f)
       ELSE IF world = "empty" THEN Return(Str(<<"(no output)">>), f)
       ELSE Return(Str(<<"out", "\n(exit code: ", "1", ")">>), f)

\* ToolRegistry._tool_task_complete
tool_task_complete(arguments, f, world) == Return(Get(arguments, "summary"), f)

\* The handlers: getattr(self, f"_tool_{name}", None) is not None.
ToolNames == {"read_file", "write_file", "edit_file", "list_files", "search_files",
              "run_command", "task_complete"}

\* The parameters of a handler without and with a default.
Required(name) ==
    CASE name = "read_file" -> {"path"}
      [] name = "write_file" -> {"path", "content"}
      [] name = "edit_file" -> {"path", "old_string", "new_string"}
      [] name = "list_files" -> {"path"}
      [] name = "search_files" -> {"pattern"}
      [] name = "run_command" -> {"command"}
      [] name = "task_complete" -> {"summary"}
Optional(name) ==
    CASE name = "search_files" -> {"path", "include"}
      [] name = "run_command" -> {"timeout"}
      [] OTHER -> {}

\* handler(**arguments) raises TypeError before the handler runs.
BindError(name, arguments) ==
    \/ ~arguments.mapping
    \/ ~(Required(name) \subseteq ArgKeys(arguments))
    \/ ~(ArgKeys(arguments) \subseteq Required(name) \cup Optional(name))

Handler(name, arguments, f, world) ==
    CASE name = "read_file" -> tool_read_file(arguments, f, world)
      [] name = "write_file" -> tool_write_file(arguments, f, world)
      [] name = "edit_file" -> tool_edit_file(arguments, f, world)
      [] name = "list_files" -> tool_list_files(arguments, f, world)
      [] name = "search_files" -> tool_search_files(arguments, f, world)
      [] name = "run_command" -> tool_run_command(arguments, f, world)
      [] name = "task_complete" -> tool_task_complete(arguments, f, world)

\* ToolRegistry.execute: the value returned, whether an exception was caught
\* on the way, and the file afterwards.
execute(name, arguments, f, world) ==
    IF name \notin ToolNames
    THEN [value |-> ErrorStr(<<"Unknown tool '", name, "'">>), caught |-> FALSE, fs |-> f]
    ELSE IF BindError(name, arguments)
    THEN [value |-> ErrorStr(<<"TypeError", ": ", "arguments">>), caught |-> TRUE, fs |-> f]
    ELSE LET h == Handler(name, arguments, f, world)
         IN IF h.raises
            THEN [value |-> ErrorStr(h.value.s \o <<": ", "message">>),
                  caught |-> TRUE, fs |-> h.fs]
            ELSE [value |-> h.value, caught |-> FALSE, fs |-> h.fs]

\* The characters of file contents.
Alphabet == {"a", "b", "\r", "\n"}

\* The states of the file explored.
Files == {NoFile} \cup {[exists |-> TRUE, content |-> c] : c \in SeqsUpTo(Alphabet, MaxFileLen)}

\* The old_string and new_string values explored.
OldStrings == SeqsUpTo({"a", "b"}, MaxOldLen)
NewStrings == {<<>>, <<"b">>, <<"a", "a">>}

Call(name, arguments) == [name |-> name, arguments |-> arguments]

\* The edit_file calls explored.
EditCalls ==
    {Call("edit_file", Args({<<"path", Str(p)>>, <<"old_string", o>>, <<"new_string", n>>})) :
        p \in {FilePath, MissingPath},
        o \in {Str(x) : x \in OldStrings} \cup {NonStr},
        n \in {Str(x) : x \in NewStrings} \cup {NonStr}}

\* Calls of the other tools with the parameters their handlers take.
OtherCalls ==
    {Call("read_file", Args({<<"path", v>>})) : v \in {Str(FilePath), Str(MissingPath), NonStr}}
    \cup {Call("write_file", Args({<<"path", v>>, <<"content", c>>})) :
            v \in {Str(FilePath), Str(MissingPath), Str(DirPath), NonStr},
            c \in {Str(<<>>), Str(<<"a", "b">>), NonStr}}
    \cup {Call("list_files", Args({<<"path", v>>})) : v \in {Str(DirPath), Str(FilePath), NonStr}}
    \cup {Call("search_files", Args({<<"pattern", v>>})) : v \in {Str(<<"a">>), NonStr}}
    \cup {Call("search_files", Args({<<"pattern", Str(<<"a">>)>>, <<"path", v>>})) :
            v \in {Str(DirPath), NonStr}}
    \cup {Call("run_command", Args({<<"command", v>>})) : v \in {Str(<<"a">>), NonStr}}
    \cup {Call("run_command", Args({<<"command", Str(<<"a">>)>>, <<"timeout", v>>})) :
            v \in {Str(<<"a">>), NonStr}}
    \cup {Call("task_complete", Args({<<"summary", v>>})) : v \in {Str(<<"a">>), NonStr}}

\* Calls whose arguments do not fit the handler, and calls of no handler.
MisfitCalls ==
    {Call(name, arguments) :
        name \in ToolNames \cup {"nope", "resolve_path"},
        arguments \in {NotAMapping, Args({}),
                       Args({<<"path", Str(FilePath)>>, <<"extra", Str(<<"a">>)>>})}}

ToolCalls == EditCalls \cup OtherCalls \cup MisfitCalls

\* What the world outside does to a handler that reaches it.
Worlds == {"ok", "empty", "timeout", "oserror"}

\* The sandbox with one file in the working directory.
SandboxInit == fs \in Files /\ ret = NoRet

\* A call of ToolRegistry.execute.
DoExecute ==
    /\ ret = NoRet
    /\ \E tc \in ToolCalls, world \in Worlds :
         LET r == execute(tc.name, tc.arguments, fs, world)
         IN /\ ret' = [op |-> "execute", name |-> tc.name, arguments |-> tc.arguments,
                       world |-> world, before |-> fs, result |-> r.value,
                       caught |-> r.caught]
            /\ fs' = r.fs
    /\ UNCHANGED <<trackerVars, agentVars, mayorVars, watchVars>>

\* Agent.run, lines 189-204, for one tool call of the response.
ToolCallStep ==
    /\ ret = NoRet
    /\ \E tc \in ToolCalls, world \in Worlds :
         IF tc.name = "task_complete"
         THEN /\ IF tc.arguments.mapping
                 THEN completed' = TRUE /\ pc' = pc
                 ELSE completed' = TRUE /\ pc' = "raised"
              /\ ret' = [op |-> "task_complete", name |-> tc.name,
                         arguments |-> tc.arguments]
              /\ UNCHANGED <<messages, fs>>
         ELSE LET r == execute(tc.name, tc.arguments, fs, world)
              IN /\ messages' = Append(messages,
                                       ToolResultMsg(ToolCall("t1", tc.name), Len(r.value.s)))
                 /\ ret' = [op |-> "tool_call", name |-> tc.name,
                            arguments |-> tc.arguments, world |-> world, before |-> fs,
                            result |-> r.value, caught |-> r.caught]
                 /\ fs' = r.fs
                 /\ UNCHANGED <<completed, pc>>
    /\ UNCHANGED <<trackerVars, task, providers, models, step, sel, max_tokens, calls,
                   errors, mayorVars, watchVars>>

SandboxNext == DoExecute \/ ToolCallStep

\* ----------------------------------------------- src/lib/jules_wrapper.py

\* JobStatus, as far as watch_job looks at it; synthetic marks the status
\* watch_job builds itself ("Polling failed").
Status(state, synthetic) == [state |-> state, synthetic |-> synthetic]

\* JobStatus.is_complete
is_complete(status) == status.state \in {"COMPLETED", "FAILED"}

\* watch_job's max_errors.
max_errors == 3

\* What get_status gives in one iteration: a state, or an exception.
WatchPolls == {"PENDING", "RATE_LIMITED", "COMPLETED", "FAILED", "CANCELLED", "raise"}

\* What the calls of callback_stdout do in one iteration: "ok" when there
\* is no callback or every call returns, "raise" when the status update
\* raises, "raise_backoff" when the rate-limit message raises.
CallbackOutcomes == {"ok", "raise", "raise_backoff"}

\* One iteration of the loop of watch_job (lines 115-154), given what
\* get_status and the callback do in it.  tracked is the state of
\* self._active_jobs[job_id], which line 120 overwrites with the status
\* polled.
WatchStep(poll, cb) ==
    /\ polled' = Append(polled, [poll |-> poll, callback |-> cb])
    /\ tracked' = IF poll = "raise" THEN tracked ELSE poll
    /\ IF poll = "raise" \/ cb = "raise" \/ cb = "raise_backoff"
       THEN \* the except branch, lines 145-154
            LET n == (IF poll = "raise" THEN consecutive_errors ELSE 0) + 1
            IN /\ consecutive_errors' = n
               /\ IF n >= max_errors
                  THEN wpc' = "returned" /\ wret' = Status("FAILED", TRUE)
                  ELSE wpc' = "polling" /\ wret' = wret
       ELSE /\ consecutive_errors' = 0
            /\ IF is_complete(Status(poll, FALSE))
               THEN wpc' = "returned" /\ wret' = Status(poll, FALSE)
               ELSE wpc' = "polling" /\ wret' = wret

\* One iteration of the loop of watch_job, the service reporting anything.
WatchIteration ==
    /\ wpc = "polling"
    /\ Len(polled) < MaxPolls
    /\ \E poll \in WatchPolls, cb \in CallbackOutcomes :
         /\ cb = "raise_backoff" => poll = "RATE_LIMITED"
         /\ poll = "raise" => cb = "ok"
         /\ WatchStep(poll, cb)
    /\ UNCHANGED <<remote, trackerVars, agentVars, ret, mayorVars, sandboxVars>>

\* watch_job before its first iteration (lines 112-113), for a job that
\* submit_task tracks as PENDING (lines 86-93).
WatchInit ==
    /\ wpc = "polling"
    /\ consecutive_errors = 0
    /\ polled = <<>>
    /\ wret = NoStatus
    /\ tracked = "PENDING"
    /\ remote = ""

WatchNext == WatchIteration

\* ---- one job from submit_task on: watch_job calls and cancel

TerminalStates == {"COMPLETED", "FAILED", "CANCELLED"}

\* The states the job may have at the service when it is polled next: a
\* state of the terminal set is final there.
RemoteNext(r) ==
    IF r \in TerminalStates THEN {r}
    ELSE {"PENDING", "RATE_LIMITED", "COMPLETED", "FAILED", "CANCELLED"}

\* submit_task has returned (lines 86-95): the job is tracked as PENDING.
JobInit ==
    /\ wpc = "idle"
    /\ consecutive_errors = 0
    /\ polled = <<>>
    /\ wret = NoStatus
    /\ tracked = "PENDING"
    /\ remote = "PENDING"

\* watch_job is called for the job (lines 112-113).
JobStartWatch ==
    /\ wpc \in {"idle", "returned"}
    /\ Len(polled) < MaxPolls
    /\ wpc' = "polling"
    /\ consecutive_errors' = 0
    /\ UNCHANGED <<polled, wret, tracked, remote,
                   trackerVars, agentVars, ret, mayorVars, sandboxVars>>

\* One iteration of the loop of watch_job: get_status reports the state the
\* job has at the service, or raises.
JobWatchIteration ==
    /\ wpc = "polling"
    /\ Len(polled) < MaxPolls
    /\ \E r \in RemoteNext(remote), raises \in BOOLEAN, cb \in CallbackOutcomes :
         /\ cb = "raise_backoff" => (r = "RATE_LIMITED" /\ ~raises)
         /\ raises => cb = "ok"
         /\ remote' = r
         /\ WatchStep(IF raises THEN "raise" ELSE r, cb)
    /\ UNCHANGED <<trackerVars, agentVars, ret, mayorVars, sandboxVars>>

\* JulesWrapper.cancel (lines 193-202): the command succeeds or fails.  A
\* job that was not final at the service is cancelled there when the
\* command succeeds.
JobCancel ==
    /\ \E ok \in BOOLEAN :
         IF ok
         THEN /\ tracked' = "CANCELLED"
              /\ remote' = IF remote \in TerminalStates THEN remote ELSE "CANCELLED"
         ELSE UNCHANGED <<tracked, remote>>
    /\ UNCHANGED <<wpc, consecutive_errors, polled, wret,
                   trackerVars, agentVars, ret, mayorVars, sandboxVars>>

JobNext == JobStartWatch \/ JobWatchIteration \/ JobCancel

\* ------------------------------- the tracker and the router on their own

\* Every non-empty set of available providers, as a sequence.
AvailableProviders == {
    <<"anthropic">>, <<"openai">>, <<"google">>,
    <<"anthropic", "openai">>, <<"anthropic", "google">>, <<"openai", "google">>,
    <<"anthropic", "openai", "google">> }

\* Total budgets: 0, 0.025 and 1 USD.
TrackerBudgets == {0, 1000000, 40000000}

\* Arguments of record: (model id, input tokens, output tokens, input price,
\* output price).
RecordInputs == {
    <<"gemini-1.5-flash", 0, 0, 3, 12>>,
    <<"gemini-1.5-flash", 3000, 1000, 3, 12>>,
    <<"claude-sonnet-4-20250514", 3000, 1000, 120, 600>>,
    <<"free", 3000, 1000, 0, 0>> }

\* Arguments of max_output_tokens: (input price, output price, estimated
\* input tokens).
MaxOutputInputs == {
    <<3, 12, 2000>>, <<600, 3000, 2000>>, <<600, 3000, 100000>>,
    <<3, 0, 2000>>, <<0, 0, 0>> }

\* Arguments of select: (estimated input tokens, estimated output tokens).
SelectInputs == { <<2000, 1000>>, <<500, 100>>, <<0, 0>>, <<2000, 0>> }

\* Arguments of the estimated_remaining_steps setter.
StepsInputs == {-3, 1, 20}

\* BudgetTracker.__init__ and ModelRouter.__init__
TrackerInit ==
    /\ total_budget \in TrackerBudgets
    /\ spent = 0
    /\ records = <<>>
    /\ est_steps = 10
    /\ providers \in AvailableProviders
    /\ models = RouterModels(Range(providers))
    /\ ret = NoRet

\* ret holds what the last call returned.  A call of max_output_tokens or
\* select leaves the tracker as it was, so the calls that may follow it are
\* those that may follow from the state it was made in: they are explored
\* from there, and a state that only shows a returned value has no successor.
Observing == ret.op \in {"max_output_tokens", "select"}

\* BudgetTracker.record
DoRecord ==
    /\ ~Observing
    /\ Len(records) < MaxRecords
    /\ \E a \in RecordInputs :
        LET r == record(a[1], a[2], a[3], a[4], a[5], Len(records) + 1)
        IN /\ spent' = r.spent
           /\ records' = r.records
           /\ est_steps' = r.est_steps
           /\ ret' = [op |-> "record", result |-> r.cost]
    /\ UNCHANGED <<total_budget, agentVars, mayorVars, sandboxVars, watchVars>>

\* The estimated_remaining_steps setter.
DoSetSteps ==
    /\ ~Observing
    /\ \E v \in StepsInputs :
        /\ est_steps' = set_estimated_remaining_steps(v)
        /\ ret' = [op |-> "set_steps", value |-> v]
    /\ UNCHANGED <<total_budget, spent, records, agentVars, mayorVars, sandboxVars, watchVars>>

\* BudgetTracker.max_output_tokens
DoMaxOutputTokens ==
    /\ ~Observing
    /\ \E a \in MaxOutputInputs :
        ret' = [op |-> "max_output_tokens", args |-> a,
                result |-> max_output_tokens(a[1], a[2], a[3])]
    /\ UNCHANGED <<trackerVars, agentVars, mayorVars, sandboxVars, watchVars>>

\* ModelRouter.select
DoSelect ==
    /\ ~Observing
    /\ \E st \in StepTypes, a \in SelectInputs :
        ret' = [op |-> "select", args |-> <<st, a[1], a[2]>>,
                result |-> select(st, a[1], a[2])]
    /\ UNCHANGED <<trackerVars, agentVars, mayorVars, sandboxVars, watchVars>>

TrackerNext == DoRecord \/ DoSetSteps \/ DoMaxOutputTokens \/ DoSelect

\* ------------------------------------------------------- specifications

Init == AgentInit /\ ret = NoRet /\ MayorIdle /\ SandboxIdle /\ WatchIdle

\* The agent session.
Spec == Init /\ [][AgentNext]_vars

InitTracker == TrackerInit /\ AgentIdle /\ MayorIdle /\ SandboxIdle /\ WatchIdle

\* The budget tracker and the router under arbitrary calls.
TrackerSpec == InitTracker /\ [][TrackerNext]_vars

InitMayor ==
    MayorInit /\ AgentIdle /\ NoRouter /\ NoTracker /\ ret = NoRet /\ SandboxIdle /\ WatchIdle

\* The orchestrator loop.
MayorSpec == InitMayor /\ [][MayorNext]_vars

InitEditedMayor ==
    EditedMayorInit /\ AgentIdle /\ NoRouter /\ NoTracker /\ ret = NoRet /\ SandboxIdle /\ WatchIdle

\* The orchestrator loop beside a user who edits the task plan.
EditedMayorSpec == InitEditedMayor /\ [][EditedMayorNext]_vars

InitPolledMayor ==
    PolledMayorInit /\ AgentIdle /\ NoRouter /\ NoTracker /\ ret = NoRet /\ SandboxIdle /\ WatchIdle

\* The orchestrator loop over the cycles in which a job is polled.
PolledMayorSpec == InitPolledMayor /\ [][PolledMayorNext]_vars

\* The orchestrator loop that keeps running, beside a job service that
\* accepts every submit and reports every job completed in the end.
SteadyMayorSpec ==
    /\ InitMayor
    /\ [][SteadyMayorNext]_vars
    /\ WF_mpc(CheckReturns)
    /\ WF_mpc(DispatchReturns)
    /\ \A id \in JobIds : SF_<<mpc, active_jobs>>(ReportedCompleted(id))

InitWatch ==
    WatchInit /\ AgentIdle /\ NoRouter /\ NoTracker /\ ret = NoRet /\ MayorIdle /\ SandboxIdle

\* One call of JulesWrapper.watch_job.
WatchSpec == InitWatch /\ [][WatchNext]_vars

InitJob ==
    JobInit /\ AgentIdle /\ NoRouter /\ NoTracker /\ ret = NoRet /\ MayorIdle /\ SandboxIdle

\* One job of the JulesWrapper from submit_task on.
JobSpec == InitJob /\ [][JobNext]_vars

InitAgentLoop ==
    AgentLoopInit /\ ret = NoRet /\ MayorIdle /\ SandboxIdle /\ WatchIdle

\* Whole runs of Agent.run, where every provider call and tool execution
\* returns or raises and the run goes on.
AgentLoopSpec == InitAgentLoop /\ [][AgentLoopNext]_vars /\ WF_vars(AgentLoopNext)

InitRewrite ==
    RewriteInit /\ AgentIdle /\ NoRouter /\ NoTracker /\ SandboxIdle /\ WatchIdle

\* Rewrites of the task plan file with a reader beside them.
RewriteSpec == InitRewrite /\ [][RewriteNext]_vars

InitBrain ==
    /\ BrainInit
    /\ active_jobs = <<>> /\ max_concurrent = 0 /\ mpc = "idle" /\ cycle = 0
    /\ AgentIdle /\ NoRouter /\ NoTracker /\ SandboxIdle /\ WatchIdle

\* The task plan store under arbitrary calls.
BrainSpec == InitBrain /\ [][BrainNext]_vars

InitSandbox ==
    SandboxInit /\ AgentIdle /\ NoRouter /\ NoTracker /\ MayorIdle /\ WatchIdle

\* The tool sandbox under arbitrary calls.
SandboxSpec == InitSandbox /\ [][SandboxNext]_vars

\* ------------------------------------------------------------- claims

\* C1 (Budget guard).  An iteration of Agent.run that starts with the
\* remaining budget below the cheapest model's estimate for a 500/100-token
\* call ends the loop as budget-exhausted: it calls no provider adapter and
\* appends no cost record and no message, and nothing happens afterwards.
\* A session whose budget is below that floor from the start never has a
\* cost record.
C1_BudgetGuard ==
    /\ [][(pc = "loop" /\ step' = step + 1 /\ remaining < min_cost)
            => /\ pc' = "budget_exhausted"
               /\ calls' = <<>>
               /\ records' = records
               /\ spent' = spent
               /\ messages' = messages]_vars
    /\ [][pc # "budget_exhausted"]_vars
    /\ [](pc # "idle" /\ total_budget < min_cost => records = <<>>)

\* An iteration after the first found the budget exhausted.
C1_Witness ==
    /\ pc = "budget_exhausted"
    /\ step >= 2
    /\ Len(records) = step - 1
    /\ remaining < min_cost

\* C2 as claimed.  Whenever the loop is about to call the selected
\* provider, the selected model's estimate for the step's estimated input
\* tokens and 1000 output tokens is within the remaining budget.
C2_ProjectedCostWithinRemaining ==
    pc = "call" =>
        estimate_call_cost(sel, estimate_context_tokens + 500, 1000) <= remaining

\* C2 amended.  Whenever the loop is about to call the selected provider,
\* the remaining budget covers the cheapest available model's estimate for
\* a 500-input/100-output-token call.
C2_FloorWithinRemaining ==
    pc = "call" => remaining >= estimate_call_cost(cheapest_model, 500, 100)

\* A call is about to be made although the selected model's projected cost
\* exceeds what remains.
C2_Witness ==
    /\ pc = "call"
    /\ remaining >= estimate_call_cost(cheapest_model, 500, 100)
    /\ estimate_call_cost(sel, estimate_context_tokens + 500, 1000) > remaining

RECURSIVE SumCosts(_)
SumCosts(rs) == IF rs = <<>> THEN 0 ELSE Head(rs).cost + SumCosts(Tail(rs))

\* C3 (Monotone spend).  Under any sequence of record calls, spent equals
\* the sum of the costs of the records, spent never decreases, and the
\* records only grow at the end: the earlier records stay as they were.
C3_MonotoneSpend ==
    /\ [](spent = SumCosts(records))
    /\ [][/\ spent' >= spent
          /\ Len(records') >= Len(records)
          /\ SubSeq(records', 1, Len(records)) = records]_vars

\* Several calls recorded, of zero and of positive cost.
C3_Witness ==
    /\ Len(records) >= 3
    /\ \E i \in DOMAIN records : records[i].cost = 0
    /\ \E i \in DOMAIN records : records[i].cost > 0
    /\ spent > records[Len(records)].cost

\* C4 as claimed.  max_output_tokens returns, for every non-negative input
\* price, output price and input-token estimate, an integer in
\* [256, 16384], and 256 when budget per step minus the estimated input
\* cost is not positive; it never raises.
C4_MaxOutputTokensTotal ==
    ret.op = "max_output_tokens" =>
        /\ ret.result.raised = ""
        /\ ret.result.value \in 256..16384
        /\ (PerStepMinusNotPositive(ret.args[3] * ret.args[1])
                => ret.result.value = 256)

\* C5 (Router bounds).  select returns a model of the registry whose
\* provider is available; when utilization exceeds 0.95 (utilization being
\* 1 for a total budget of 0) no available model has a lower default
\* estimate than the one returned, whatever the step type.
C5_RouterBounds ==
    ret.op = "select" =>
        /\ ret.result \in Range(MODEL_REGISTRY)
        /\ ret.result.provider \in Range(providers)
        /\ (total_budget = 0 \/ spent * 20 > total_budget * 19) =>
              \A i \in DOMAIN MODEL_REGISTRY :
                  MODEL_REGISTRY[i].provider \in Range(providers) =>
                      default_cost(ret.result) <= default_cost(MODEL_REGISTRY[i])

\* select was called for an execute step with more than 95% of a positive
\* budget spent, while a dearer model than the one returned still fits the
\* budget per step.
C5_Witness ==
    /\ ret.op = "select"
    /\ ret.args[1] = "execute"
    /\ total_budget > 0 /\ spent * 20 > total_budget * 19
    /\ \E i \in DOMAIN models :
          /\ FitsPerStep(estimate_call_cost(models[i], ret.args[2], ret.args[3]))
          /\ default_cost(models[i]) > default_cost(ret.result)

\* The display texts of the entries of the task plan with a given status.
TextsWithStatus(status) ==
    LET tasks == read_task_plan(task_file)
    IN {tasks[i].text : i \in {j \in DOMAIN tasks : tasks[j].status = status}}

\* The number of entries of the task plan with a given status.
CountWithStatus(status) ==
    LET tasks == read_task_plan(task_file)
    IN Cardinality({j \in DOMAIN tasks : tasks[j].status = status})

\* C6 (Orchestrator capacity).  In every state of the Mayor loop the number
\* of active jobs is at most max_concurrent_agents, and a dispatch step that
\* finds as many active jobs as that (or more) leaves the task plan file
\* and the active map as they are.
C6_Capacity ==
    /\ [](Len(active_jobs) <= max_concurrent)
    /\ [][(mpc = "dispatch" /\ Len(active_jobs) >= max_concurrent)
            => (task_file' = task_file /\ active_jobs' = active_jobs)]_vars

\* A dispatch step was skipped at capacity although a task was pending: no
\* job has ended, max_concurrent_agents dispatches have filled the map, and
\* a later cycle has finished with a task still pending.
C6_Witness ==
    /\ mpc = "check"
    /\ cycle > max_concurrent
    /\ Len(active_jobs) = max_concurrent
    /\ hist.completed = 0 /\ ~hist.strayed
    /\ CountWithStatus("pending") > 0

\* Scenario F so far: max-concurrent 2, the plan started as three pending
\* tasks, every submit gave a fresh job id, and every poll gave pending
\* except for the completions counted in hist.
ScenarioF ==
    /\ max_concurrent = 2
    /\ hist.plan = ThreePending
    /\ ~hist.strayed

\* C7 as claimed.  In Scenario F, after one orchestrator cycle exactly two
\* tasks are marked running and one remains pending.
C7_TwoRunningAfterOneCycle ==
    (ScenarioF /\ hist.completed = 0 /\ mpc = "check" /\ cycle = 1) =>
        /\ CountWithStatus("running") = 2
        /\ CountWithStatus("pending") = 1

\* C7 amended.  In Scenario F each cycle dispatches at most one task: with
\* no completion reported, after n cycles min(n, 2) tasks are marked
\* running and the others remain pending; from the third cycle on, at the
\* end of a cycle by which one job has been reported completed, that task
\* is done and the two others are running, none is pending.
C7_OneDispatchPerCycle ==
    /\ (ScenarioF /\ hist.completed = 0 /\ mpc = "check") =>
          /\ CountWithStatus("running") = Min(cycle, 2)
          /\ CountWithStatus("pending") = 3 - Min(cycle, 2)
          /\ CountWithStatus("done") = 0
          /\ Len(active_jobs) = Min(cycle, 2)
    /\ (ScenarioF /\ hist.completed = 1 /\ mpc = "check" /\ cycle >= 3) =>
          /\ CountWithStatus("done") = 1
          /\ CountWithStatus("running") = 2
          /\ CountWithStatus("pending") = 0
          /\ Len(active_jobs) = 2

\* Scenario F ran to its end: capacity was reached, one job was then
\* reported completed and the third task is running.
C7_Witness ==
    /\ ScenarioF /\ hist.completed = 1 /\ mpc = "check" /\ cycle = MaxCycles
    /\ TextsWithStatus("done") \in {{<<"A">>}, {<<"B">>}}
    /\ <<"C">> \in TextsWithStatus("running")
    /\ Len(active_jobs) = 2

\* C8 as claimed.  At the end of every orchestrator cycle the set of task
\* texts marked running in the task plan file equals the set of task texts
\* held in the active-job map.
C8_RunningEqualsActive ==
    mpc = "check" => TextsWithStatus("running") = Values(active_jobs)

\* C9 (Orchestrator mutual exclusion).  After every reconcile step, no task
\* text is both the text of an active job and the display text of a pending
\* entry of the task plan.
C9_MutualExclusion ==
    mpc = "dispatch" => Values(active_jobs) \cap TextsWithStatus("pending") = {}

\* A reconcile step found a job failed, put its task back to pending and
\* dropped it, while another job stayed active.
C9_Witness ==
    /\ mpc = "dispatch"
    /\ hist.strayed
    /\ Len(active_jobs) = 1
    /\ Values(active_jobs) \subseteq TextsWithStatus("running")
    /\ \E t \in TextsWithStatus("pending") :
          t \notin Values(active_jobs) /\ t = <<"A">>
    /\ hist.plan = ThreePending

\* The provider a model of the registry belongs to.
ProviderOf(model_id) ==
    (CHOOSE m \in Range(MODEL_REGISTRY) : m.id = model_id).provider

\* C10 as claimed (Scenario D).  In a step in which the adapter of the first
\* of two providers raised and the second provider's adapter returned, the
\* session goes on, exactly one provider failure was logged, and the cost
\* record of the step names a model of the second provider and is priced
\* with that model's prices.
C10_FallbackCostRecord ==
    (/\ pc = "loop" /\ Len(providers) = 2 /\ Len(calls) = 2
     /\ calls[1].provider = providers[1] /\ ~calls[1].ok
     /\ calls[2].provider = providers[2] /\ calls[2].ok) =>
        /\ errors = 1
        /\ records # <<>>
        /\ LET r == records[Len(records)]
           IN /\ r.step = step
              /\ ProviderOf(r.model) = providers[2]
              /\ \E m \in Range(MODEL_REGISTRY) :
                    /\ m.provider = providers[2]
                    /\ r.cost = r.input_tokens * m.input_cost_per_1m
                                + r.output_tokens * m.output_cost_per_1m

\* The offsets at which old occurs in content.
Occurrences(content, old) == {i \in 1..(Len(content) + 1) : OccursAt(content, old, i)}

\* C11 as claimed (Edit uniqueness).  For edit_file on an existing file
\* with string arguments: when old_string occurs exactly once in the
\* content, exactly that occurrence is replaced by new_string and the
\* result reports 1 replaced occurrence; when it occurs 0 times or more
\* than once, the result begins with Error: and the file is byte-identical
\* to before.
C11_EditUniqueness ==
    (/\ ret.op = "execute" /\ ret.name = "edit_file" /\ ret.world = "ok"
     /\ ~BindError(ret.name, ret.arguments)
     /\ \A p \in ret.arguments.items : p[2].type = "str"
     /\ isfile(Get(ret.arguments, "path").s, ret.before)) =>
        LET content == ret.before.content
            old == Get(ret.arguments, "old_string").s
            new == Get(ret.arguments, "new_string").s
            occ == Occurrences(content, old)
        IN IF Cardinality(occ) = 1
           THEN LET i == CHOOSE j \in occ : TRUE
                IN /\ fs.exists
                   /\ fs.content = SubSeq(content, 1, i - 1) \o new
                                   \o SubSeq(content, i + Len(old), Len(content))
                   /\ ret.result = Str(<<"Edited ", "f", ": replaced 1 occurrence">>)
           ELSE /\ fs = ret.before
                /\ ret.result.type = "str"
                /\ ret.result.s # <<>> /\ ret.result.s[1] = ErrorPrefix

\* C18 as claimed.  Whatever the tool name and the arguments,
\* ToolRegistry.execute returns a string; for an unknown tool name, and
\* when an exception was raised inside the call, the string begins with
\* Error:; and the agent loop appends the string as the tool result of the
\* call and goes on.
C18_SandboxBoundary ==
    ret.op \in {"execute", "tool_call"} =>
        /\ ret.result.type = "str"
        /\ (ret.name \notin ToolNames \/ ret.caught) =>
              (ret.result.s # <<>> /\ ret.result.s[1] = ErrorPrefix)
        /\ ret.op = "tool_call" =>
              /\ pc # "raised"
              /\ messages # <<>>
              /\ messages[Len(messages)] =
                    ToolResultMsg(ToolCall("t1", ret.name), Len(ret.result.s))

\* The file before the i-th call of mark_task_status.
FileBefore(i) == IF i = 1 THEN hist.plan ELSE hist.files[i - 1]

\* The number of entries of a task plan file with a given display text.
EntriesWithText(content, t) ==
    LET tasks == read_task_plan(content)
    IN {i \in DOMAIN tasks : tasks[i].text = t}

\* C12 as claimed (Task-plan round-trip).  For a display text t of a task
\* of the file, after mark(t, running) and then mark(t, done) the file
\* has exactly one entry with display text t, its marker is x, the file has
\* as many lines as before and every line that was not a task line is as it
\* was.
C12_RoundTrip ==
    (/\ Len(hist.marks) = 2
     /\ hist.marks[1].status = "running" /\ hist.marks[2].status = "done"
     /\ hist.marks[1].text = hist.marks[2].text
     /\ EntriesWithText(hist.plan, hist.marks[1].text) # {}) =>
        LET t == hist.marks[1].text
            tasks == read_task_plan(task_file)
            old == splitlines(hist.plan)
            new == splitlines(task_file)
        IN /\ Cardinality(EntriesWithText(task_file, t)) = 1
           /\ \A i \in EntriesWithText(task_file, t) :
                 TaskMatch(tasks[i].original_line).marker = "x"
           /\ Len(new) = Len(old)
           /\ \A k \in DOMAIN old : ~TaskMatch(old[k]).matched => new[k] = old[k]

\* C13 (Idempotent status transitions).  A call mark(t, s) that follows a
\* call mark(t, s) with the same t and s leaves the file as the first call
\* left it.
C13_Idempotent ==
    \A i \in 1..(Len(hist.marks) - 1) :
        hist.marks[i + 1] = hist.marks[i] => hist.files[i + 1] = hist.files[i]

\* mark(A, running) was called twice on a file in which the first call
\* changed a line.
C13_Witness ==
    /\ Len(hist.marks) = 2
    /\ hist.marks[1] = hist.marks[2]
    /\ hist.marks[1].status = "running"
    /\ hist.files[1] # hist.plan
    /\ hist.files[1] # WriteLines(splitlines(hist.plan))
    /\ task_file = hist.files[2]
    /\ \E i \in EntriesWithText(task_file, <<"A">>) :
          read_task_plan(task_file)[i].status = "running"

\* C14 as claimed (Frame of mark).  Every call mark(t, s) leaves the number
\* of lines of the file as it was, and leaves every line that is not a task
\* line, and every task line whose display text is not t, as it was and
\* where it was.
C14_Frame ==
    \A i \in DOMAIN hist.marks :
        LET old == splitlines(FileBefore(i))
            new == splitlines(hist.files[i])
        IN /\ Len(new) = Len(old)
           /\ \A k \in DOMAIN old :
                 (~TaskMatch(old[k]).matched \/ TaskMatch(old[k]).text # hist.marks[i].text)
                     => (k \in DOMAIN new /\ new[k] = old[k])

\* C15 as claimed (Effect of mark on a matched line).  Every call
\* mark(t, s) rewrites every task line whose display text is t to a line
\* with the same leading indentation that parses as an entry with text t
\* and status s, at the same position.
C15_EffectOnMatchedLine ==
    \A i \in DOMAIN hist.marks :
        LET old == splitlines(FileBefore(i))
            new == splitlines(hist.files[i])
        IN \A k \in DOMAIN old :
              (TaskMatch(old[k]).matched /\ TaskMatch(old[k]).text = hist.marks[i].text)
                  => /\ k \in DOMAIN new
                     /\ TaskMatch(new[k]).matched
                     /\ TaskMatch(new[k]).text = hist.marks[i].text
                     /\ StatusOf(TaskMatch(new[k]).marker) = hist.marks[i].status
                     /\ SkipSpace(new[k], 1) = SkipSpace(old[k], 1)

\* A checkbox line as the task plan format describes it: indentation, a
\* bullet - or *, a box holding one of ' ', x, X, /, and a text.
CheckboxLine(line) ==
    LET b == SkipSpace(line, 1)
        o == SkipSpace(line, b + 1)
        ok == /\ b <= Len(line) /\ line[b] \in {"-", "*"}
              /\ o + 2 <= Len(line)
              /\ line[o] = "["
              /\ line[o + 1] \in {" ", "x", "X", "/"}
              /\ line[o + 2] = "]"
              /\ o + 3 <= Len(line)
    IN IF ok
       THEN [matched |-> TRUE, marker |-> line[o + 1],
             text |-> strip(SubSeq(line, o + 3, Len(line)))]
       ELSE [matched |-> FALSE, marker |-> "", text |-> <<>>]

\* C16 as claimed (Marker semantics).  Parsing the task plan gives one
\* entry for every checkbox line, in file order, with the line's text and
\* with status pending for the marker ' ', done for x or X and running
\* for /.
C16_MarkerSemantics ==
    ret.op = "read_task_plan" =>
        LET lines == splitlines(task_file)
            boxes == SelectSeq(lines, LAMBDA l : CheckboxLine(l).matched)
        IN /\ Len(ret.result) = Len(boxes)
           /\ \A i \in DOMAIN boxes :
                 /\ i \in DOMAIN ret.result
                 /\ ret.result[i].original_line = boxes[i]
                 /\ ret.result[i].text = CheckboxLine(boxes[i]).text
                 /\ ret.result[i].status =
                        (CASE CheckboxLine(boxes[i]).marker = " " -> "pending"
                           [] CheckboxLine(boxes[i]).marker \in {"x", "X"} -> "done"
                           [] CheckboxLine(boxes[i]).marker = "/" -> "running")

\* The plan of Scenario E.
ScenarioEPlan ==
    WriteLines(<<HeaderLine, TaskLine(<<>>, "-", " ", <<"A">>),
                 TaskLine(<<>>, "-", " ", <<"B">>)>>)

\* Scenario E so far: mark(A, running), then mark(A, done).
ScenarioE ==
    /\ hist.plan = ScenarioEPlan
    /\ hist.marks = <<[text |-> <<"A">>, status |-> "running"],
                      [text |-> <<"A">>, status |-> "done"]>>

\* C17 (next-pending).  get_next_pending_task returns the display text of
\* the first line of the file, in file order, that is a task line with the
\* marker ' ', or nothing when there is none.  In Scenario E (lines "# T",
\* "- [ ] A", "- [ ] B") mark(A, running) makes the second line "- [/] A",
\* mark(A, done) makes it "- [x] A", the other lines stay, and
\* get_next_pending_task then returns B.
C17_NextPending ==
    /\ ret.op = "get_next_pending_task" =>
          LET lines == splitlines(task_file)
              pend == {k \in DOMAIN lines :
                          TaskMatch(lines[k]).matched /\ TaskMatch(lines[k]).marker = " "}
          IN IF pend = {} THEN ret.result = None
             ELSE ret.result =
                     Some(TaskMatch(lines[CHOOSE k \in pend : \A j \in pend : k <= j]).text)
    /\ ScenarioE =>
          /\ hist.files[1] = WriteLines(<<HeaderLine, TaskLine(<<>>, "-", "/", <<"A">>),
                                          TaskLine(<<>>, "-", " ", <<"B">>)>>)
          /\ task_file = WriteLines(<<HeaderLine, TaskLine(<<>>, "-", "x", <<"A">>),
                                      TaskLine(<<>>, "-", " ", <<"B">>)>>)
          /\ ret.op = "get_next_pending_task" => ret.result = Some(<<"B">>)

\* Scenario E ran to its end and get_next_pending_task returned B.
C17_Witness ==
    /\ ScenarioE
    /\ ret.op = "get_next_pending_task"
    /\ ret.result = Some(<<"B">>)

\* The last n polls of the watch all raised.
LastPollsRaised(n) ==
    /\ Len(polled) >= n
    /\ \A i \in (Len(polled) - n + 1)..Len(polled) : polled[i].poll = "raise"

\* C19 as claimed.  watch_job has returned exactly when the last poll
\* reported completed or failed, and then it returned that status, or when
\* the last 3 polls raised, and then it returned the synthetic failed
\* status; in every other case it is still watching.
C19_WatchReturns ==
    /\ wpc = "returned" =>
          \/ /\ polled[Len(polled)].poll \in {"COMPLETED", "FAILED"}
             /\ wret = Status(polled[Len(polled)].poll, FALSE)
          \/ /\ LastPollsRaised(max_errors)
             /\ wret = Status("FAILED", TRUE)
    /\ (wpc = "polling" /\ polled # <<>>) =>
          /\ polled[Len(polled)].poll \notin {"COMPLETED", "FAILED"}
          /\ ~LastPollsRaised(max_errors)

\* The statuses of the entries of a task plan file with a given text.
StatusesOf(file, text) ==
    {read_task_plan(file)[i].status : i \in EntriesWithText(file, text)}

\* C20 as claimed.  After a reconcile step, for every job it polled: if the
\* poll gave COMPLETED the job's task is marked done and the job is out of
\* the active map; if it gave FAILED, CANCELLED or ERROR the task is marked
\* pending and the job is out of the active map; otherwise the entries of
\* its task are as before and the job is still in the active map with its
\* task.
C20_Reconcile ==
    (mpc = "dispatch") =>
        \A k \in DOMAIN hist.polls :
            LET p == hist.polls[k]
            IN IF p.out = "COMPLETED"
               THEN /\ StatusesOf(task_file, p.text) = {"done"}
                    /\ p.id \notin Range(Keys(active_jobs))
               ELSE IF p.out \in {"FAILED", "CANCELLED", "ERROR"}
               THEN /\ StatusesOf(task_file, p.text) = {"pending"}
                    /\ p.id \notin Range(Keys(active_jobs))
               ELSE /\ EntriesWithText(task_file, p.text) = EntriesWithText(hist.before, p.text)
                    /\ \A i \in EntriesWithText(task_file, p.text) :
                          read_task_plan(task_file)[i] = read_task_plan(hist.before)[i]
                    /\ p.id \in Range(Keys(active_jobs))
                    /\ Lookup(active_jobs, p.id) = p.text

\* select was called with these arguments while utilization was at most
\* 0.95, and the models a and b both fit the budget per step with the same
\* estimate.
EqualCostPair(a, b) ==
    /\ ret.op = "select"
    /\ ~UtilizationAbove95
    /\ a \in DOMAIN models /\ b \in DOMAIN models /\ a # b
    /\ FitsPerStep(estimate_call_cost(models[a], ret.args[2], ret.args[3]))
    /\ estimate_call_cost(models[a], ret.args[2], ret.args[3])
         = estimate_call_cost(models[b], ret.args[2], ret.args[3])

\* C21 as claimed (Router preference).  Of two models that fit the budget
\* per step with equal estimates, select does not return the lower-tier one
\* for an execute step, and does not return the one that comes later in the
\* cost-sorted order for a simple step.
C21_RouterPreference ==
    \A a \in DOMAIN models, b \in DOMAIN models :
        EqualCostPair(a, b) =>
            /\ (ret.args[1] = "execute" /\ models[a].tier < models[b].tier)
                  => ret.result # models[a]
            /\ (ret.args[1] = "simple" /\ a < b) => ret.result # models[b]

\* C21 as the code has it.  Of two models that fit the budget per step with
\* equal estimates, select does not return the lower-tier one, whatever the
\* step type (simple included); of two such models of the same tier it does
\* not return the one that comes later in the cost-sorted order.
C21_HigherTierAtEqualCost ==
    \A a \in DOMAIN models, b \in DOMAIN models :
        EqualCostPair(a, b) =>
            /\ models[a].tier < models[b].tier => ret.result # models[a]
            /\ (models[a].tier = models[b].tier /\ a < b) => ret.result # models[b]

\* select for a simple step returned a premium model although a model of a
\* lower tier, earlier in the cost-sorted order, fits with the same estimate.
C21_Witness ==
    /\ ret.op = "select" /\ ret.args[1] = "simple"
    /\ ret.result.tier = PREMIUM
    /\ \E a \in DOMAIN models, b \in DOMAIN models :
          /\ EqualCostPair(a, b)
          /\ a < b /\ models[a].tier < models[b].tier
          /\ models[b] = ret.result

\* Scenario B: 1.00 USD, nothing spent, 10 estimated remaining steps,
\* providers with models of all four tiers, select for an execute step with
\* the default token estimates.
ScenarioB ==
    /\ total_budget = 40000000 /\ spent = 0 /\ est_steps = 10
    /\ \A t \in {BUDGET, ECONOMY, STANDARD, PREMIUM} :
          \E i \in DOMAIN models : models[i].tier = t
    /\ ret.op = "select"
    /\ ret.args = <<"execute", 2000, 1000>>

\* C22 (Scenario B).  In Scenario B select returns a premium model if some
\* premium model's default estimate is at most 0.10 USD (4000000 units), and
\* a standard model otherwise.
C22_ScenarioB ==
    ScenarioB =>
        IF \E i \in DOMAIN models :
              models[i].tier = PREMIUM /\ default_cost(models[i]) <= 4000000
        THEN ret.result.tier = PREMIUM
        ELSE ret.result.tier = STANDARD

\* Scenario B with a premium model that is available but too dear (0.105
\* USD): a standard model was returned.
C22_Witness ==
    /\ ScenarioB
    /\ \E i \in DOMAIN models : models[i].tier = PREMIUM
    /\ ret.result.tier = STANDARD

\* C23 (Message-history invariant).  Every tool-result entry of the
\* history has an assistant entry before it with nothing but tool results
\* in between, and the n-th tool result after that assistant entry carries
\* the call-id and the name of the n-th tool call the entry requested.
C23_MessageHistory ==
    \A i \in DOMAIN messages :
        messages[i].role = "tool_result" =>
            \E j \in 1..(i - 1) :
                /\ messages[j].role = "assistant"
                /\ \A k \in (j + 1)..i : messages[k].role = "tool_result"
                /\ i - j <= Len(messages[j].tool_calls)
                /\ messages[i].tool_call_id = messages[j].tool_calls[i - j].id
                /\ messages[i].name = messages[j].tool_calls[i - j].name

\* A turn with two tool calls has been processed: the history holds the
\* assistant entry followed by the results of both, and a later turn has
\* added its own assistant entry after them.
C23_Witness ==
    \E j \in DOMAIN messages :
        /\ messages[j].role = "assistant"
        /\ Len(messages[j].tool_calls) = 2
        /\ j + 3 <= Len(messages)
        /\ messages[j + 1].role = "tool_result" /\ messages[j + 1].tool_call_id = "c1"
        /\ messages[j + 2].role = "tool_result" /\ messages[j + 2].tool_call_id = "c2"
        /\ messages[j + 3].role = "assistant"

\* The k-th tool call of the assistant entry j is the first of that entry
\* named task_complete.
TaskCompleteAt(j, k) ==
    /\ j \in DOMAIN messages
    /\ messages[j].role = "assistant"
    /\ k \in DOMAIN messages[j].tool_calls
    /\ messages[j].tool_calls[k].name = "task_complete"
    /\ \A n \in 1..(k - 1) : messages[j].tool_calls[n].name # "task_complete"

\* C30 (task_complete handling).  Once a turn holds a tool call named
\* task_complete, the session is marked completed; the history ends with
\* the results of the tool calls before it, so neither it nor any tool call
\* after it has a tool-result entry and no later assistant entry exists; and
\* the session is never again at a model call.
C30_TaskComplete ==
    \A j \in DOMAIN messages : \A k \in DOMAIN messages[j].tool_calls :
        TaskCompleteAt(j, k) =>
            /\ completed
            /\ Len(messages) = j + k - 1
            /\ \A n \in 1..(k - 1) :
                  /\ messages[j + n].role = "tool_result"
                  /\ messages[j + n].tool_call_id = messages[j].tool_calls[n].id
            /\ pc \in {"loop", "finished"}

\* The run has finished after a turn whose second tool call of three was
\* task_complete: the result of the first call is the last entry.
C30_Witness ==
    /\ pc = "finished"
    /\ \E j \in DOMAIN messages :
          /\ TaskCompleteAt(j, 2)
          /\ Len(messages[j].tool_calls) = 3
          /\ Len(messages) = j + 1
          /\ messages[j + 1].role = "tool_result"

\* Agent.run has left its loop.
Terminated == pc \in {"finished", "budget_exhausted", "providers_failed"}

\* The last assistant entry of the history.
LastAssistant ==
    messages[CHOOSE j \in DOMAIN messages :
                /\ messages[j].role = "assistant"
                /\ \A k \in (j + 1)..Len(messages) : messages[k].role # "assistant"]

\* Why the run has left its loop, if it has.
ExitReasons ==
    /\ pc = "budget_exhausted" => ~can_afford(min_cost)
    /\ pc = "providers_failed" => (calls # <<>> /\ \A i \in DOMAIN calls : ~calls[i].ok)
    /\ pc = "finished" =>
          \/ HasTaskComplete(LastAssistant.tool_calls)
          \/ /\ LastAssistant.tool_calls = <<>>
             /\ ret.stop_reason = "end_turn"
             /\ step > 1
          \/ step = MAX_STEPS

\* C24 (Agent loop termination).  Agent.run never makes more than 200
\* steps, it leaves its loop in the end, and when it has left it the reason
\* is a task_complete call, an exhausted budget, the failure of every
\* provider, the step ceiling, or a turn after the first step that had no
\* tool calls and the stop reason end_turn.
C24_Termination == [](step <= MAX_STEPS /\ ExitReasons) /\ <>Terminated

\* The run ended at the step ceiling without being completed.
C24_Witness == pc = "finished" /\ step = MAX_STEPS /\ ~completed

\* C25 as claimed (Job state monotonicity).  Once the tracked state of the
\* job is completed, failed or cancelled, no step changes it.
C25_Monotone == [][(tracked \in TerminalStates) => (tracked' = tracked)]_vars

\* C26 as claimed (Atomic rewrite of the task plan).  A reader of the task
\* plan file gets the whole content from before the rewrite or the whole
\* content from after it.
C26_AtomicRewrite ==
    ret.op = "read_file" => ret.content \in {ret.old, ret.new}

\* The place, among the entries of a task plan file, of the first pending
\* one (0 if there is none).
FirstPending(file) ==
    LET tasks == read_task_plan(file)
        pend == {i \in DOMAIN tasks : tasks[i].status = "pending"}
    IN IF pend = {} THEN 0 ELSE CHOOSE i \in pend : \A j \in pend : i <= j

\* C28 (Submit failure).  When the submit of a dispatch step raises, the
\* entry the step had selected (the first pending one) is pending again at
\* the end of the step, the plan has as many entries as before, the active
\* map is as it was, and the loop is at the start of its next cycle.
C28_SubmitFailure ==
    [][(mpc = "dispatch" /\ hist'.dispatch.submit = "raise") =>
          /\ FirstPending(task_file) > 0
          /\ Len(read_task_plan(task_file')) = Len(read_task_plan(task_file))
          /\ read_task_plan(task_file')[FirstPending(task_file)].status = "pending"
          /\ active_jobs' = active_jobs
          /\ mpc' = "check"]_vars

\* A submit has just failed for task A of the plan of three pending tasks
\* while another job is active; A is pending and the loop is at its next
\* cycle.
C28_Witness ==
    /\ hist.plan = ThreePending
    /\ hist.dispatch = [text |-> <<"A">>, submit |-> "raise"]
    /\ mpc = "check"
    /\ "pending" \in StatusesOf(task_file, <<"A">>)
    /\ active_jobs # <<>>

\* The first pending entry of a task plan whose text no active job holds;
\* 0 when there is none.
EligiblePending(file, active) ==
    LET plan == read_task_plan(file)
        ok == {i \in DOMAIN plan : plan[i].status = "pending" /\ plan[i].text \notin Values(active)}
    IN IF ok = {} THEN 0 ELSE CHOOSE i \in ok : \A j \in ok : i <= j

\* C27: a dispatch step that has capacity and whose submit does not raise
\* takes the first pending task, in file order, whose text is not a value of
\* the active map (pending tasks that are already active are skipped),
\* marks it running, submits it and maps the returned job id to it.
C27_DispatchSelection ==
    [][(/\ mpc = "dispatch"
        /\ ~AtCapacity
        /\ EligiblePending(task_file, active_jobs) > 0
        /\ hist'.dispatch.submit # "raise") =>
          LET i == EligiblePending(task_file, active_jobs)
              t == read_task_plan(task_file)[i].text
          IN /\ hist'.dispatch = [text |-> t, submit |-> "ok"]
             /\ read_task_plan(task_file')[i].status = "running"
             /\ t \in Values(active_jobs')]_vars

\* C29: failed polls of an active job are tolerated up to 3 in a row: once
\* the third poll in a row of a job has raised, the job is no longer in the
\* active map (and its task is pending again rather than running).
C29_PollTolerance ==
    \A k \in DOMAIN active_jobs : hist.fails[active_jobs[k].id] < 3

\* C31 (Implicit completion).  A turn that produced no tool calls completes
\* the session exactly when its stop reason is end_turn and the step is
\* after the first; at step 1, or with another stop reason, the session
\* is not completed and the loop goes on to its next step.
C31_ImplicitCompletion ==
    [][(/\ pc = "call" /\ pc' = "loop"
        /\ messages'[Len(messages')].role = "assistant"
        /\ messages'[Len(messages')].tool_calls = <<>>) =>
          /\ completed' <=> (ret'.stop_reason = "end_turn" /\ step > 1)
          /\ ~completed' => (pc' = "loop" /\ step' < MAX_STEPS)]_vars

\* The second step's turn had no tool calls and stopped with end_turn, and
\* the session is completed, although no turn called task_complete.
C31_Witness ==
    /\ pc = "loop" /\ step = 2 /\ completed
    /\ ret = [op |-> "complete", stop_reason |-> "end_turn"]
    /\ messages[Len(messages)].role = "assistant"
    /\ messages[Len(messages)].tool_calls = <<>>
    /\ \A j \in DOMAIN messages : ~HasTaskComplete(messages[j].tool_calls)

\* C32 (Fallback protocol).  When the adapter of the selected provider
\* raises, the other configured providers are called in their order, each
\* at most once, with the id of the cheapest model of the router and a
\* ceiling of 1024 tokens, up to the first that returns; that step then goes
\* on with a cost record and an assistant entry.  When every one raises,
\* the loop is left and the step adds no cost record and no message.
C32_Fallback ==
    [][(pc = "call" /\ calls' # <<>> /\ ~calls'[1].ok) =>
          LET others == SelectSeq(providers, LAMBDA p : p # sel.provider)
              n == Len(calls') - 1
          IN /\ calls'[1].provider = sel.provider
             /\ n <= Len(others)
             /\ \A i \in 1..n :
                   /\ calls'[i + 1].provider = others[i]
                   /\ calls'[i + 1].model = cheapest_model.id
                   /\ calls'[i + 1].max_tokens = 1024
                   /\ i < n => ~calls'[i + 1].ok
             /\ IF n > 0 /\ calls'[n + 1].ok
                THEN /\ pc' = "loop"
                     /\ Len(records') = Len(records) + 1
                     /\ records'[Len(records')].step = step
                     /\ Len(messages') > Len(messages)
                     /\ messages'[Len(messages) + 1].role = "assistant"
                ELSE /\ n = Len(others)
                     /\ pc' = "providers_failed"
                     /\ records' = records
                     /\ messages' = messages]_vars

\* With three providers configured, the selected provider's adapter and the
\* first fallback's adapter raised and the second fallback's returned: the
\* step made three calls and the session goes on.
C32_Witness ==
    /\ pc = "loop" /\ Len(providers) = 3 /\ Len(calls) = 3
    /\ ~calls[1].ok /\ ~calls[2].ok /\ calls[3].ok
    /\ records # <<>> /\ records[Len(records)].step = step

\* C35: every call of a provider adapter made by a step, the first call and
\* the fallback calls alike, passes the id of a model of the provider whose
\* adapter is called.
C35_ModelOfCalledProvider ==
    \A i \in DOMAIN calls : ProviderOf(calls[i].model) = calls[i].provider

\* max(1, floor(remaining / avg_cost_per_step)) of a tracker with the given
\* budget, spend and number of records, for a positive spend.
ProjectedSteps(total, sp, n) == Max(1, (Max(total - sp, 0) * n) \div sp)

\* C33 as claimed (Re-estimation rule).  A call of record sets the step
\* estimate to max(1, floor(remaining / avg-cost-per-step)) when at least
\* two records existed before the call, and leaves it unchanged when fewer
\* than two did.
C33_Reestimation ==
    [][(ret'.op = "record" /\ Len(records') = Len(records) + 1) =>
          IF Len(records) >= 2
          THEN spent' > 0 /\ est_steps' = ProjectedSteps(total_budget, spent', Len(records'))
          ELSE est_steps' = est_steps]_vars

\* C33 amended.  A call of record sets the step estimate to
\* max(1, floor(remaining / avg-cost-per-step)) exactly when at least two
\* records exist after the call (one or more before it) and the spend is
\* positive; otherwise it leaves the estimate unchanged.
C33_ReestimationFromSecondRecord ==
    [][(ret'.op = "record" /\ Len(records') = Len(records) + 1) =>
          IF Len(records') >= 2 /\ spent' > 0
          THEN est_steps' = ProjectedSteps(total_budget, spent', Len(records'))
          ELSE est_steps' = est_steps]_vars

\* The second record of a tracker has just been made at a positive spend,
\* and the estimate is the projection and no longer the initial 10.
C33_Witness ==
    /\ ret.op = "record" /\ Len(records) = 2 /\ spent > 0
    /\ est_steps = ProjectedSteps(total_budget, spent, Len(records))
    /\ est_steps # 10

\* C34: the step estimate is at least 1 in every state, as stored and as
\* the property returns it, so the divisor of budget_per_step is never 0.
C34_StepsAtLeastOne ==
    /\ est_steps >= 1
    /\ estimated_remaining_steps >= 1
    /\ estimated_remaining_steps # 0

\* The setter has just been called with a negative value, and the
\* estimate is 1.
C34_Witness ==
    /\ ret.op = "set_steps" /\ ret.value < 0
    /\ est_steps = 1

\* C36 (Bounded overshoot).  Whenever the loop is at a model call, the
\* cheapest-call floor is positive and remaining is at least the floor, so
\* spent is below the total budget: no call is made once spent has reached
\* the total.  And when spent is above the total, it was below it before
\* the last recorded call: the excess is less than the cost of one call.
C36_BoundedOvershoot ==
    /\ pc = "call" =>
          /\ min_cost > 0
          /\ remaining >= min_cost
          /\ spent < total_budget
    /\ spent > total_budget =>
          /\ records # <<>>
          /\ spent - records[Len(records)].cost < total_budget
          /\ pc # "call"

\* A call took spent above the total budget, and the next step stopped at
\* the budget check without a call.
C36_Witness ==
    /\ pc = "budget_exhausted"
    /\ spent > total_budget
    /\ records # <<>> /\ records[Len(records)].step = step - 1

\* C37 (Session bookkeeping).  At every loop boundary of Agent.run the
\* history starts with the one user entry it holds, there are as many
\* assistant entries as cost records, and the cost records carry strictly
\* increasing step numbers, none beyond the current step: at most one
\* record per step.
C37_Bookkeeping ==
    pc = "loop" =>
        /\ messages # <<>>
        /\ messages[1].role = "user"
        /\ \A i \in DOMAIN messages : messages[i].role = "user" => i = 1
        /\ Cardinality({i \in DOMAIN messages : messages[i].role = "assistant"})
              = Len(records)
        /\ \A i \in DOMAIN records :
              /\ records[i].step >= 1 /\ records[i].step <= step
              /\ i > 1 => records[i - 1].step < records[i].step

\* The session is at the loop boundary after three steps that each got a
\* result, one of them with tool calls: three records and three assistant
\* entries exist beside the user entry and the tool results.
C37_Witness ==
    /\ pc = "loop" /\ step = 3 /\ Len(records) = 3
    /\ Cardinality({i \in DOMAIN messages : messages[i].role = "assistant"}) = 3
    /\ Len(messages) > 4

\* C39 (Done is stable).  A task entry that is done in the task plan is the
\* same entry, still done, after every step of the orchestrator, whatever
\* the other entries' texts.
C39_DoneIsStable ==
    [][\A i \in DOMAIN read_task_plan(task_file) :
          read_task_plan(task_file)[i].status = "done" =>
              /\ i \in DOMAIN read_task_plan(task_file')
              /\ read_task_plan(task_file')[i].status = "done"]_vars

\* C38 (No duplicate dispatch).  No two entries of the active map have the
\* same job id or carry the same task text, in the runs in which only the
\* orchestrator writes the task plan and in those in which the user edits it.
C38_NoDuplicateDispatch ==
    \A i, j \in DOMAIN active_jobs :
        i # j => /\ active_jobs[i].id # active_jobs[j].id
                 /\ active_jobs[i].text # active_jobs[j].text

\* A dispatch with capacity left has just ended without a submit because
\* the first pending task of the plan is the task of an active job.
C38_Witness ==
    /\ mpc = "check" /\ cycle >= 2
    /\ Len(active_jobs) < max_concurrent
    /\ hist.dispatch = NoDispatch
    /\ get_next_pending_task(task_file).some
    /\ get_next_pending_task(task_file).text \in Values(active_jobs)

\* The status of the i-th task entry of the plan, "" when there is none.
StatusAt(i) ==
    IF i \in DOMAIN read_task_plan(task_file)
    THEN read_task_plan(task_file)[i].status ELSE ""

====
